---- MODULE Spec2Model ----
(***************************************************************************)
(* A model of the AquaCloud integration: the request executor (callApi),   *)
(* the locked-item updater (updateLockedItem), the per-session token       *)
(* manager (getAquaAuth, withAuth) and the token-handling wrapper          *)
(* (withAquaAuth).                                                         *)
(*                                                                         *)
(* JavaScript values are modelled by strings: "undefined" is the value of  *)
(* a missing key, "null" is null.  An async function is modelled by one    *)
(* action per stretch of code between two awaits: the action that handles  *)
(* a reply also issues the next request.                                   *)
(***************************************************************************)
EXTENDS Integers, Sequences, FiniteSets, TLC

VARIABLES
    \* ---- updateLockedItem (one invocation at a time) ----
    uPc,            \* "idle", "fetch", "lock", "mutate", "unlock", "returned", "thrown"
    uItemType,      \* the itemType argument
    updatePayload,  \* the caller's updatePayload object, as the caller sees it
    callerPayload,  \* the updatePayload object as it was when the call was made
    uVersion,       \* const version = itemDetails.Version.Version
    uLockVersion,   \* the Version sent in the body of the lock request
    finalPayload,   \* the body sent in the mutation request
    uCalls,         \* the requests issued so far, in order (names)
    uReplies,       \* the replies so far, in order: [op, resp, outcome]
    uCompletion,    \* the completion of the try block, held while finally runs
    uResult,        \* what the invocation delivered to its caller
    trackerLocked,  \* the Tracker: the item is locked by this invocation
    \* ---- withAquaAuth (one invocation) ----
    wPc,            \* "idle", "call1", "refresh", "call2", "login", "call3", "done"
    user,           \* req.user, the user record
    savedUser,      \* the user record as user.save() last stored it
    silent,         \* options.silent
    wTrace,         \* the requests issued and the replies received, in order
    wResult,        \* the value withAquaAuth returned
    wResponse,      \* what was sent with res.status(..).json(..)
    \* ---- the sessions of the MCP server: getAquaAuth and withAuth ----
    now,            \* Date.now(), in milliseconds
    sessionMemory,  \* the session's memory: its aquaAuth
    rPc,            \* per request: "idle", "refresh", "login", "granted", "tool", "done"
    rSession,       \* per request: the session it belongs to
    tokenData,      \* per request: const tokenData, the token response
    rAuth,          \* per request: what getAquaAuth returned or threw
    rCalls,         \* per request: the requests it issued, by kind
    rContent,       \* per request: the result withAuth returned
    \* ---- parseAquaItemId (one call) ----
    pPc,            \* "idle", "call", "done"
    rawId,          \* the rawId argument
    explicitType,   \* the explicitType argument
    parsed,         \* what the call returned or threw
    \* ---- one Tracker call: callApi, getStatusesForProject ----
    cPc,            \* "idle", "ready", "called", "statuses"
    cResp,          \* what the transport gives for the request
    cOutcome,       \* what callApi returned or threw
    cStatuses,      \* what getStatusesForProject returned or threw
    \* ---- the session store and one tool invocation ----
    sessionMemoryStore, \* the ids that have an entry in sessionMemoryStore
    sessionTransports,  \* the ids that have an entry in sessionTransports
    initPc,         \* per session id: "none", "connect", "open", "failed", "closed"
    mcpStatus,      \* per session id: the status a request carrying it was
                    \* refused with, 0 while none was
    sessionUser,    \* per session: sessionMemory.user
    sessionTaskId,  \* per session: sessionMemory.taskId
    tTool,          \* the tool invoked, "none" when tools are not modelled
    tInput,         \* the input of the tool: itemId (or testCaseId), itemType
    tParsed,        \* what parseAquaItemId gave the tool
    tCalls          \* the requests the tool issued, in order

uVars == <<uPc, uItemType, updatePayload, callerPayload, uVersion, uLockVersion, finalPayload,
           uCalls, uReplies, uCompletion, uResult, trackerLocked>>

wVars == <<wPc, user, savedUser, silent, wTrace, wResult, wResponse>>

aVars == <<now, sessionMemory, rPc, rSession, tokenData, rAuth, rCalls, rContent>>

fVars == <<pPc, rawId, explicitType, parsed, cPc, cResp, cOutcome, cStatuses>>

tVars == <<sessionMemoryStore, sessionTransports, initPc, mcpStatus, sessionUser,
           sessionTaskId, tTool, tInput, tParsed, tCalls>>

vars == <<uVars, wVars, aVars, fVars, tVars>>

-----------------------------------------------------------------------------
(* The transport and callApi. *)

\* The HTTP statuses the Tracker answers with in this model.
Statuses == {200, 401, 409, 500}

Is2xx(status) == status >= 200 /\ status < 300

\* JavaScript truthiness of the modelled values.
Falsy(v) == v \in {"undefined", "null", ""}

\* A payload of the Tracker. body names the payload; the two version fields
\* are those of an item-details payload (Version, Version.Version).
Payload(body, hasVersion, version) ==
    [body |-> body, hasVersion |-> hasVersion, version |-> version]

NoPayload == Payload("undefined", FALSE, "undefined")

\* What axios(options) gives: a response with a status and data, or no
\* response at all (validateStatus accepts every status, so only a transport
\* failure rejects).
Received(status, data) ==
    [received |-> TRUE, status |-> status, data |-> data, cause |-> ""]

NotReceived(cause) ==
    [received |-> FALSE, status |-> 0, data |-> NoPayload, cause |-> cause]

\* The outcome of an awaited call: a returned value or a thrown error.  An
\* error carries its message and, when it has one, error.response.
Return(data) ==
    [kind |-> "return", message |-> "", hasResponse |-> FALSE, status |-> 0,
     data |-> data]

Throw(message, hasResponse, status, data) ==
    [kind |-> "throw", message |-> message, hasResponse |-> hasResponse,
     status |-> status, data |-> data]

NoOutcome == Return(NoPayload)

callApi_300IsSuccess(resp) ==
    IF ~resp.received
    THEN Throw(resp.cause, FALSE, 0, NoPayload)
    ELSE IF resp.status = 401
         THEN Throw("Authentication error", TRUE, 401, resp.data)
         ELSE IF resp.status < 200 \/ resp.status > 300
              THEN Throw("Aqua API call failed with status", TRUE, resp.status, resp.data)
              ELSE Return(resp.data)

\* callApi: one round trip, classified.
callApi(resp) ==
    IF ~resp.received
    THEN Throw(resp.cause, FALSE, 0, NoPayload)
    ELSE IF resp.status = 401
         THEN Throw("Authentication error", TRUE, 401, resp.data)
         ELSE IF resp.status < 200 \/ resp.status >= 300
              THEN Throw("Aqua API call failed with status", TRUE, resp.status, resp.data)
              ELSE Return(resp.data)

-----------------------------------------------------------------------------
(* The Tracker's answers to the requests of updateLockedItem. *)

\* The item-details payloads: an empty body, no Version key, a Version object
\* without Version, and Version.Version null or a number.
DetailsPayloads ==
    { Payload("", FALSE, "undefined"),
      Payload("details", FALSE, "undefined"),
      Payload("details", TRUE, "undefined"),
      Payload("details", TRUE, "null"),
      Payload("details", TRUE, "0"),
      Payload("details", TRUE, "7") }

\* The body of the answer to request op with the given status: an item-details
\* payload for a successful fetch, otherwise a payload that names the endpoint.
BodiesOf(op, status) ==
    IF op = "fetch" /\ Is2xx(status)
    THEN DetailsPayloads
    ELSE { Payload(op, FALSE, "undefined") }

TrackerReplies(op) ==
    UNION { { Received(s, d) : d \in BodiesOf(op, s) } : s \in Statuses }
    \cup { NotReceived(op) }

\* What a lock (POST .../Lock) or unlock (DELETE .../Lock) request does on the
\* Tracker: a 2xx answer means it was applied, another answer that it was
\* not; when no response came back the request may or may not have been
\* applied.
TrackerApplied(resp) ==
    IF resp.received THEN { Is2xx(resp.status) } ELSE BOOLEAN

-----------------------------------------------------------------------------
(* updateLockedItem. *)

ItemTypes == {"TestCase", "Requirement"}

\* The values of one list of TestSteps: the key is missing, or holds a list.
ListValues == {"undefined", "[]", "[stepA]"}

\* The caller's payloads: with or without a TestSteps object.
UpdatePayloads ==
    [hasTestSteps : {TRUE}, Added : ListValues, Deleted : ListValues]
    \cup { [hasTestSteps |-> FALSE, Added |-> "undefined", Deleted |-> "undefined"] }

NoUpdatePayload ==
    [hasTestSteps |-> FALSE, Added |-> "undefined", Deleted |-> "undefined"]

\* A reply as the model records it: the request it answers, what the
\* transport gave and what the awaited call made of it.
Reply(op, resp, outcome) == [op |-> op, resp |-> resp, outcome |-> outcome]

getItemDetails(resp) == callApi(resp)

lockItem_IgnoresFailure(resp) == Return(resp.data)

lockItem(resp) == callApi(resp)
unlockItem(resp) == callApi(resp)

VersionUnavailable_MissesUndefined(itemDetails) ==
    \/ Falsy(itemDetails.body)
    \/ ~itemDetails.hasVersion

\* if (!itemDetails || !itemDetails.Version ||
\*     typeof itemDetails.Version.Version === 'undefined')
VersionUnavailable(itemDetails) ==
    \/ Falsy(itemDetails.body)
    \/ ~itemDetails.hasVersion
    \/ itemDetails.version = "undefined"

NormalizeTestSteps_AddedOnly(itemType, payload) ==
    IF itemType = "TestCase" /\ payload.hasTestSteps
    THEN [payload EXCEPT !.Added = IF Falsy(@) THEN "[]" ELSE @]
    ELSE payload

\* The special handling for TestCases: finalPayload = { ...updatePayload } is
\* a shallow copy, so finalPayload.TestSteps is the caller's TestSteps object
\* and the two assignments write into it.
NormalizeTestSteps(itemType, payload) ==
    IF itemType = "TestCase" /\ payload.hasTestSteps
    THEN [payload EXCEPT !.Added = IF Falsy(@) THEN "[]" ELSE @,
                         !.Deleted = IF Falsy(@) THEN "[]" ELSE @]
    ELSE payload

FinallyRuns_OnlyOnReturn(completion) == completion.kind = "return"

\* try { ... } finally { await unlockItem(...) }: the finally block runs for
\* every completion of the try block.
FinallyRuns(completion) == TRUE

\* The completion of try/finally: a finally block that throws replaces the
\* completion of the try block, one that completes normally keeps it.
FinallyCompletion(completion, unlocked) ==
    IF unlocked.kind = "throw" THEN unlocked ELSE completion

Deliver(outcome) ==
    /\ uResult' = outcome
    /\ uPc' = IF outcome.kind = "return" THEN "returned" ELSE "thrown"

\* updateLockedItem is called: it runs up to the await of getItemDetails.
updateLockedItem_Enter(itemType, payload) ==
    /\ uPc = "idle"
    /\ uItemType' = itemType
    /\ updatePayload' = payload
    /\ callerPayload' = payload
    /\ uCalls' = Append(uCalls, "fetch")
    /\ uPc' = "fetch"
    /\ UNCHANGED <<uVersion, uLockVersion, finalPayload, uReplies, uCompletion,
                   uResult, trackerLocked>>

\* A call of updateLockedItem on its own.
updateLockedItem_Start(itemType, payload) ==
    /\ updateLockedItem_Enter(itemType, payload)
    /\ UNCHANGED <<wVars, aVars, fVars, tVars>>

\* Step 1 done: the version check, then the lock request.
updateLockedItem_Fetched(resp) ==
    /\ uPc = "fetch"
    /\ LET itemDetails == getItemDetails(resp) IN
       /\ uReplies' = Append(uReplies, Reply("fetch", resp, itemDetails))
       /\ IF itemDetails.kind = "throw"
          THEN /\ Deliver(itemDetails)
               /\ UNCHANGED <<uVersion, uLockVersion, uCalls>>
          ELSE IF VersionUnavailable(itemDetails.data)
               THEN /\ Deliver(Throw("Could not retrieve version details", FALSE,
                                     0, NoPayload))
                    /\ UNCHANGED <<uVersion, uLockVersion, uCalls>>
               ELSE /\ uVersion' = itemDetails.data.version
                    /\ uLockVersion' = itemDetails.data.version
                    /\ uCalls' = Append(uCalls, "lock")
                    /\ uPc' = "lock"
                    /\ UNCHANGED uResult
    /\ UNCHANGED <<uItemType, updatePayload, callerPayload, finalPayload, uCompletion,
                   trackerLocked>>
    /\ UNCHANGED <<wVars, aVars, fVars, tVars>>

\* Step 2 done: a failed lock propagates; otherwise the payload is copied and
\* normalized and the mutation request is sent.
updateLockedItem_Locked(resp, applied) ==
    /\ uPc = "lock"
    /\ applied \in TrackerApplied(resp)
    /\ trackerLocked' = (trackerLocked \/ applied)
    /\ LET locked == lockItem(resp) IN
       /\ uReplies' = Append(uReplies, Reply("lock", resp, locked))
       /\ IF locked.kind = "throw"
          THEN /\ Deliver(locked)
               /\ UNCHANGED <<updatePayload, finalPayload, uCalls>>
          ELSE /\ updatePayload' = NormalizeTestSteps(uItemType, updatePayload)
               /\ finalPayload' = NormalizeTestSteps(uItemType, updatePayload)
               /\ uCalls' = Append(uCalls, "mutate")
               /\ uPc' = "mutate"
               /\ UNCHANGED uResult
    /\ UNCHANGED <<uItemType, callerPayload, uVersion, uLockVersion, uCompletion>>
    /\ UNCHANGED <<wVars, aVars, fVars, tVars>>

\* Step 3 done: the try block completes (return or throw) and the finally
\* block sends the unlock request.
updateLockedItem_Mutated(resp) ==
    /\ uPc = "mutate"
    /\ LET completion == callApi(resp) IN
       /\ uReplies' = Append(uReplies, Reply("mutate", resp, completion))
       /\ uCompletion' = completion
       /\ IF FinallyRuns(completion)
          THEN /\ uCalls' = Append(uCalls, "unlock")
               /\ uPc' = "unlock"
               /\ UNCHANGED uResult
          ELSE /\ Deliver(completion)
               /\ UNCHANGED uCalls
    /\ UNCHANGED <<uItemType, updatePayload, callerPayload, uVersion, uLockVersion,
                   finalPayload, trackerLocked>>
    /\ UNCHANGED <<wVars, aVars, fVars, tVars>>

\* Step 4 done: the invocation completes.
updateLockedItem_Unlocked(resp, applied) ==
    /\ uPc = "unlock"
    /\ applied \in TrackerApplied(resp)
    /\ trackerLocked' = (trackerLocked /\ ~applied)
    /\ LET unlocked == unlockItem(resp) IN
       /\ uReplies' = Append(uReplies, Reply("unlock", resp, unlocked))
       /\ Deliver(FinallyCompletion(uCompletion, unlocked))
    /\ UNCHANGED <<uItemType, updatePayload, callerPayload, uVersion, uLockVersion,
                   finalPayload, uCalls, uCompletion>>
    /\ UNCHANGED <<wVars, aVars, fVars, tVars>>

InitLocked ==
    /\ uPc = "idle"
    /\ uItemType = "undefined"
    /\ updatePayload = NoUpdatePayload
    /\ callerPayload = NoUpdatePayload
    /\ uVersion = "undefined"
    /\ uLockVersion = "undefined"
    /\ finalPayload = NoUpdatePayload
    /\ uCalls = << >>
    /\ uReplies = << >>
    /\ uCompletion = NoOutcome
    /\ uResult = NoOutcome
    /\ trackerLocked = FALSE

NextLocked ==
    \/ \E itemType \in ItemTypes, payload \in UpdatePayloads :
           updateLockedItem_Start(itemType, payload)
    \/ \E resp \in TrackerReplies("fetch") : updateLockedItem_Fetched(resp)
    \/ \E resp \in TrackerReplies("lock"), applied \in BOOLEAN :
           updateLockedItem_Locked(resp, applied)
    \/ \E resp \in TrackerReplies("mutate") : updateLockedItem_Mutated(resp)
    \/ \E resp \in TrackerReplies("unlock"), applied \in BOOLEAN :
           updateLockedItem_Unlocked(resp, applied)

-----------------------------------------------------------------------------
(* Properties of updateLockedItem. *)

Count(seq, x) == Cardinality({ i \in DOMAIN seq : seq[i] = x })

RepliesTo(op) == { uReplies[i] : i \in { j \in DOMAIN uReplies : uReplies[j].op = op } }

\* The transport result is a failure of the call: no response, or a status
\* outside 200..299.
Failed(resp) == ~resp.received \/ ~Is2xx(resp.status)

uDone == uPc \in {"returned", "thrown"}

LockSucceeded == \E r \in RepliesTo("lock") : ~Failed(r.resp)
MutationFailed == \E r \in RepliesTo("mutate") : Failed(r.resp)
UnlockSucceeded == \E r \in RepliesTo("unlock") : ~Failed(r.resp)
UnlockFailed == \E r \in RepliesTo("unlock") : Failed(r.resp)

\* C1: once the lock call has succeeded, exactly one unlock call is issued,
\* whether the mutation succeeds or throws, and it has completed when
\* updateLockedItem delivers its result or error; no second unlock is ever
\* issued.
C1_ExactlyOneUnlock ==
    /\ Count(uCalls, "unlock") <= 1
    /\ (uDone /\ LockSucceeded) =>
           /\ Count(uCalls, "unlock") = 1
           /\ RepliesTo("unlock") # {}
           /\ uReplies[Len(uReplies)].op = "unlock"

\* The mutation threw and the invocation has delivered after one unlock.
C1_Witness ==
    /\ uPc = "thrown"
    /\ LockSucceeded
    /\ MutationFailed
    /\ Count(uCalls, "unlock") = 1

\* C2: the outcome delivered is the outcome of the mutation step, also when
\* the unlock call fails.
C2_OutcomeIsMutationOutcome ==
    (uDone /\ RepliesTo("mutate") # {}) =>
        \A r \in RepliesTo("mutate") : uResult = callApi(r.resp)

\* C3: when updateLockedItem has returned or thrown, a lock that it acquired
\* (its lock call succeeded) has been released on the Tracker, whatever
\* failed.
C3_NeverLeftLocked == (uDone /\ LockSucceeded) => ~trackerLocked

\* C3 as amended: when updateLockedItem has returned or thrown, a lock that it
\* acquired has been released on the Tracker unless the unlock call failed.
C3_ReleasedUnlessUnlockFails ==
    (uDone /\ LockSucceeded /\ trackerLocked) => UnlockFailed

\* The mutation threw, the unlock call succeeded and the item is unlocked.
C3_Witness ==
    /\ uPc = "thrown"
    /\ LockSucceeded
    /\ MutationFailed
    /\ UnlockSucceeded
    /\ ~trackerLocked

\* The version-fetch step failed: the call failed, or its payload has no
\* Version.Version.
FetchFailed ==
    \E r \in RepliesTo("fetch") :
        \/ Failed(r.resp)
        \/ ~r.resp.data.hasVersion
        \/ r.resp.data.version = "undefined"

\* C4: when the version-fetch step fails, the invocation throws the fetch
\* error or the version-unavailable error and has issued no lock, no
\* mutation and no unlock call.
C4_FetchFailureIssuesNothing ==
    FetchFailed =>
        /\ uPc = "thrown"
        /\ uCalls = <<"fetch">>
        /\ \A r \in RepliesTo("fetch") :
               uResult = IF Failed(r.resp)
                         THEN callApi(r.resp)
                         ELSE Throw("Could not retrieve version details", FALSE,
                                    0, NoPayload)

\* The fetch answered 200 with a Version object that has no Version.
C4_Witness ==
    /\ uPc = "thrown"
    /\ \E r \in RepliesTo("fetch") :
           /\ ~Failed(r.resp)
           /\ r.resp.data.hasVersion
           /\ r.resp.data.version = "undefined"

\* C5: when the lock call fails, the invocation throws that failure and has
\* issued no mutation and no unlock call.
C5_LockFailurePropagates ==
    \A r \in RepliesTo("lock") :
        Failed(r.resp) =>
            /\ uPc = "thrown"
            /\ uResult = callApi(r.resp)
            /\ Count(uCalls, "mutate") = 0
            /\ Count(uCalls, "unlock") = 0

\* The lock call was answered 409.
C5_Witness ==
    /\ uPc = "thrown"
    /\ \E r \in RepliesTo("lock") : r.resp.received /\ r.resp.status = 409

\* The list submitted for a list of the caller: the list itself, or an empty
\* list for one the caller did not supply.
Submitted(list) == IF list = "undefined" THEN "[]" ELSE list

\* C13: for a TestCase whose payload contains TestSteps, the payload sent in
\* the mutation call contains both an Added and a Deleted list: a list the
\* caller did not supply is sent as an empty list, a list the caller supplied
\* is sent unchanged.
C13_TestStepsNormalized ==
    ( /\ Count(uCalls, "mutate") = 1
      /\ uItemType = "TestCase"
      /\ callerPayload.hasTestSteps ) =>
        /\ finalPayload.hasTestSteps
        /\ finalPayload.Added # "undefined"
        /\ finalPayload.Deleted # "undefined"
        /\ finalPayload.Added = Submitted(callerPayload.Added)
        /\ finalPayload.Deleted = Submitted(callerPayload.Deleted)

\* The caller passed Added = [stepA] and no Deleted key; the mutation was
\* sent with Deleted = [].
C13_Witness ==
    /\ Count(uCalls, "mutate") = 1
    /\ uItemType = "TestCase"
    /\ callerPayload = [hasTestSteps |-> TRUE, Added |-> "[stepA]",
                        Deleted |-> "undefined"]
    /\ finalPayload = [hasTestSteps |-> TRUE, Added |-> "[stepA]",
                       Deleted |-> "[]"]

\* The order in which updateLockedItem issues its requests.
CallOrder == <<"fetch", "lock", "mutate", "unlock">>

\* C22: updateLockedItem issues its requests strictly in the order fetch,
\* lock, mutate, unlock, each one only after the previous one was answered;
\* the lock request carries the version read from the fetch, and the
\* mutation is never issued unless the lock call succeeded.
C22_CallsInOrder ==
    /\ Len(uCalls) <= Len(CallOrder)
    /\ \A i \in DOMAIN uCalls : uCalls[i] = CallOrder[i]
    /\ Len(uReplies) <= Len(uCalls)
    /\ Len(uCalls) <= Len(uReplies) + 1
    /\ \A i \in DOMAIN uReplies : uReplies[i].op = uCalls[i]
    /\ Count(uCalls, "lock") = 1 =>
           /\ ~Failed(uReplies[1].resp)
           /\ uLockVersion = uReplies[1].resp.data.version
    /\ Count(uCalls, "mutate") = 1 => ~Failed(uReplies[2].resp)

\* All four requests were issued and answered, the lock carrying version 7.
C22_Witness ==
    /\ uDone
    /\ uCalls = CallOrder
    /\ Len(uReplies) = 4
    /\ uReplies[1].resp.data.version = "7"
    /\ uLockVersion = "7"

\* C29: updateLockedItem leaves the caller's updatePayload unchanged: when
\* the call has returned or thrown, the payload object passed in, with its
\* TestSteps object, has the keys and values it had before the call.
C29_CallerPayloadUnchanged == uDone => updatePayload = callerPayload

-----------------------------------------------------------------------------
(* The token endpoint. *)

\* The body of a token response: { access_token, refresh_token, expires_in }.
\* expires_in is in seconds; NoNumber stands for a missing expires_in.
TokenData(access, refresh, expiresIn) ==
    [access_token |-> access, refresh_token |-> refresh, expires_in |-> expiresIn]

NoNumber == -1

NoTokenData == TokenData("undefined", "undefined", NoNumber)

\* The expires_in values of a token response: below, at and above the 60 s
\* margin, or missing.
ExpiresIn == {30, 60, 120, NoNumber}

\* The tokens the Tracker issues: a refresh grant issues access token "a1", a
\* password grant "a2"; the response carries a new refresh token or omits it.
IssuedAccess(op) == IF op = "refresh" THEN "a1" ELSE "a2"
IssuedRefresh(op) == IF op = "refresh" THEN {"r1", "undefined"} ELSE {"r2", "undefined"}

TokenReplies(op) ==
    { Received(200, TokenData(IssuedAccess(op), r, e)) :
          r \in IssuedRefresh(op), e \in ExpiresIn }
    \cup { Received(s, NoTokenData) : s \in {401, 500} }
    \cup { NotReceived(op) }

\* The answers to the call that apiCall makes.
ApiReplies ==
    { Received(s, Payload("api", FALSE, "undefined")) : s \in Statuses }
    \cup { NotReceived("api") }

refreshToken(resp) == callApi(resp)

login_401Returns(resp) ==
    IF resp.received /\ resp.status = 401 THEN Return(resp.data) ELSE callApi(resp)

login(resp) == callApi(resp)

-----------------------------------------------------------------------------
(* withAquaAuth. *)

\* encrypt and decrypt of ../crypto.js: decrypt undoes encrypt, and a stored
\* secret is not the clear text.
encrypt(text) == <<"enc", text>>
decrypt(secret) == secret[2]

\* A field of the user record that is not set (undefined).
Unset == << >>

\* The user records a request can come with: every combination of a stored
\* access token, a stored refresh token, a stored password and a configured
\* AquaCloud URL and username.
Users ==
    [ configured : BOOLEAN,
      aquacloud_access_token : {Unset, encrypt("a0")},
      aquacloud_refresh_token : {Unset, encrypt("r0")},
      aquacloud_password : {Unset, encrypt("pw")} ]

NoUser ==
    [ configured |-> FALSE, aquacloud_access_token |-> Unset,
      aquacloud_refresh_token |-> Unset, aquacloud_password |-> Unset ]

\* An entry of wTrace: a request issued (with the bearer token, refresh token
\* or password it carries) or a reply received.
Issued(op, secret) ==
    [ev |-> "call", op |-> op, secret |-> secret, resp |-> NotReceived(""),
     outcome |-> NoOutcome]

Replied(op, resp, outcome) ==
    [ev |-> "reply", op |-> op, secret |-> "", resp |-> resp, outcome |-> outcome]

NoResponse == [sent |-> FALSE, status |-> 0, error |-> ""]

\* if (!silent) res.status(status).json({ error })
Respond(status, error) ==
    IF silent THEN NoResponse ELSE [sent |-> TRUE, status |-> status, error |-> error]

\* if (!err.response || err.response.status !== 401): an unrelated API error.
UnrelatedError(err) == ~err.hasResponse \/ err.status # 401

\* return null, after the response (if any) was sent.
wFail(status, error) ==
    /\ wResult' = "null"
    /\ wResponse' = Respond(status, error)
    /\ wPc' = "done"

\* return await performApiCall(..) completed normally.
wReturn(data) ==
    /\ wResult' = data.body
    /\ wResponse' = NoResponse
    /\ wPc' = "done"

\* 2. If refresh fails or no refresh token, try to login with password; 3. if
\* no other options, fail.  events are the trace entries of the step so far.
wLoginPhase(events) ==
    IF user.aquacloud_password # Unset
    THEN /\ wTrace' = wTrace \o events
                        \o <<Issued("login", decrypt(user.aquacloud_password))>>
         /\ wPc' = "login"
         /\ UNCHANGED <<user, savedUser, wResult, wResponse>>
    ELSE /\ wTrace' = wTrace \o events
         /\ wFail(401, "AquaCloud authentication failed. Please re-configure your credentials.")
         /\ UNCHANGED <<user, savedUser>>

\* 1. Attempt to refresh the token, when a refresh token is stored.
wRefreshPhase(events) ==
    IF user.aquacloud_refresh_token # Unset
    THEN /\ wTrace' = wTrace \o events
                        \o <<Issued("refresh", decrypt(user.aquacloud_refresh_token))>>
         /\ wPc' = "refresh"
         /\ UNCHANGED <<user, savedUser, wResult, wResponse>>
    ELSE wLoginPhase(events)

StoreTokens_KeepsAccessToken(u, newTokens) ==
    [u EXCEPT !.aquacloud_refresh_token =
                  IF Falsy(newTokens.refresh_token) THEN @
                  ELSE encrypt(newTokens.refresh_token)]

\* The new tokens stored in the user record: the access token always, the
\* refresh token when the response carries one.  user.save() is taken to
\* succeed: savedUser follows user at every save.
StoreTokens(u, newTokens) ==
    [u EXCEPT !.aquacloud_access_token = encrypt(newTokens.access_token),
              !.aquacloud_refresh_token =
                  IF Falsy(newTokens.refresh_token) THEN @
                  ELSE encrypt(newTokens.refresh_token)]

\* The clean-up of the login catch block.
ClearTokens(u) ==
    [u EXCEPT !.aquacloud_access_token = Unset, !.aquacloud_refresh_token = Unset]

\* The catch block of the login attempt.
wLoginFailed(events) ==
    /\ wTrace' = wTrace \o events
    /\ user' = ClearTokens(user)
    /\ savedUser' = ClearTokens(user)
    /\ wFail(401, "Failed to authenticate with AquaCloud. Please check your credentials.")

\* The call, up to its first await (or its return).
withAquaAuth_Start(u, s) ==
    /\ wPc = "idle"
    /\ user' = u
    /\ savedUser' = u
    /\ silent' = s
    /\ IF ~u.configured
       THEN /\ wResult' = "null"
            /\ wResponse' = IF s THEN NoResponse
                            ELSE [sent |-> TRUE, status |-> 401,
                                  error |-> "This action requires AquaCloud to be configured."]
            /\ wPc' = "done"
            /\ UNCHANGED wTrace
       ELSE IF u.aquacloud_access_token # Unset
            THEN /\ wTrace' = <<Issued("api", decrypt(u.aquacloud_access_token))>>
                 /\ wPc' = "call1"
                 /\ UNCHANGED <<wResult, wResponse>>
            ELSE IF u.aquacloud_refresh_token # Unset
                 THEN /\ wTrace' = <<Issued("refresh", decrypt(u.aquacloud_refresh_token))>>
                      /\ wPc' = "refresh"
                      /\ UNCHANGED <<wResult, wResponse>>
                 ELSE IF u.aquacloud_password # Unset
                      THEN /\ wTrace' = <<Issued("login", decrypt(u.aquacloud_password))>>
                           /\ wPc' = "login"
                           /\ UNCHANGED <<wResult, wResponse>>
                      ELSE /\ wResult' = "null"
                           /\ wResponse' =
                                  IF s THEN NoResponse
                                  ELSE [sent |-> TRUE, status |-> 401,
                                        error |-> "AquaCloud authentication failed. Please re-configure your credentials."]
                           /\ wPc' = "done"
                           /\ UNCHANGED wTrace
    /\ UNCHANGED <<uVars, aVars, fVars, tVars>>

\* The call with the stored access token completed.
withAquaAuth_FirstCallDone(resp) ==
    /\ wPc = "call1"
    /\ LET result == callApi(resp)
           events == <<Replied("api", resp, result)>> IN
       IF result.kind = "return"
       THEN /\ wTrace' = wTrace \o events
            /\ wReturn(result.data)
            /\ UNCHANGED <<user, savedUser>>
       ELSE IF UnrelatedError(result)
            THEN /\ wTrace' = wTrace \o events
                 /\ wFail(IF result.hasResponse THEN result.status ELSE 500,
                          "An error occurred with AquaCloud")
                 /\ UNCHANGED <<user, savedUser>>
            ELSE wRefreshPhase(events)
    /\ UNCHANGED silent
    /\ UNCHANGED <<uVars, aVars, fVars, tVars>>

\* The refresh call completed: on success the tokens are stored and saved and
\* the API call is made with the new access token, inside the same try block.
withAquaAuth_RefreshDone(resp) ==
    /\ wPc = "refresh"
    /\ LET newTokens == refreshToken(resp)
           events == <<Replied("refresh", resp, newTokens)>> IN
       IF newTokens.kind = "return"
       THEN /\ user' = StoreTokens(user, newTokens.data)
            /\ savedUser' = StoreTokens(user, newTokens.data)
            /\ wTrace' = wTrace \o events
                           \o <<Issued("api", newTokens.data.access_token)>>
            /\ wPc' = "call2"
            /\ UNCHANGED <<wResult, wResponse>>
       ELSE wLoginPhase(events)
    /\ UNCHANGED silent
    /\ UNCHANGED <<uVars, aVars, fVars, tVars>>

\* The call made after the refresh completed: whatever it throws is caught by
\* the catch block of the refresh attempt, which falls through to the login.
withAquaAuth_CallAfterRefreshDone(resp) ==
    /\ wPc = "call2"
    /\ LET result == callApi(resp)
           events == <<Replied("api", resp, result)>> IN
       IF result.kind = "return"
       THEN /\ wTrace' = wTrace \o events
            /\ wReturn(result.data)
            /\ UNCHANGED <<user, savedUser>>
       ELSE wLoginPhase(events)
    /\ UNCHANGED silent
    /\ UNCHANGED <<uVars, aVars, fVars, tVars>>

\* The login call completed: on success the tokens are stored and saved and
\* the API call is made with the new access token, inside the same try block.
withAquaAuth_LoginDone(resp) ==
    /\ wPc = "login"
    /\ LET newTokens == login(resp)
           events == <<Replied("login", resp, newTokens)>> IN
       IF newTokens.kind = "return"
       THEN /\ user' = StoreTokens(user, newTokens.data)
            /\ savedUser' = StoreTokens(user, newTokens.data)
            /\ wTrace' = wTrace \o events
                           \o <<Issued("api", newTokens.data.access_token)>>
            /\ wPc' = "call3"
            /\ UNCHANGED <<wResult, wResponse>>
       ELSE wLoginFailed(events)
    /\ UNCHANGED silent
    /\ UNCHANGED <<uVars, aVars, fVars, tVars>>

\* The call made after the login completed: whatever it throws is caught by
\* the catch block of the login attempt.
withAquaAuth_CallAfterLoginDone(resp) ==
    /\ wPc = "call3"
    /\ LET result == callApi(resp)
           events == <<Replied("api", resp, result)>> IN
       IF result.kind = "return"
       THEN /\ wTrace' = wTrace \o events
            /\ wReturn(result.data)
            /\ UNCHANGED <<user, savedUser>>
       ELSE wLoginFailed(events)
    /\ UNCHANGED silent
    /\ UNCHANGED <<uVars, aVars, fVars, tVars>>

InitWrapper ==
    /\ wPc = "idle"
    /\ user = NoUser
    /\ savedUser = NoUser
    /\ silent = FALSE
    /\ wTrace = << >>
    /\ wResult = "undefined"
    /\ wResponse = NoResponse

NextWrapper ==
    \/ \E u \in Users, s \in BOOLEAN : withAquaAuth_Start(u, s)
    \/ \E resp \in ApiReplies : withAquaAuth_FirstCallDone(resp)
    \/ \E resp \in TokenReplies("refresh") : withAquaAuth_RefreshDone(resp)
    \/ \E resp \in ApiReplies : withAquaAuth_CallAfterRefreshDone(resp)
    \/ \E resp \in TokenReplies("login") : withAquaAuth_LoginDone(resp)
    \/ \E resp \in ApiReplies : withAquaAuth_CallAfterLoginDone(resp)

-----------------------------------------------------------------------------
(* Properties of withAquaAuth. *)

wIsCall(i, op) == wTrace[i].ev = "call" /\ wTrace[i].op = op
wIsReply(i, op) == wTrace[i].ev = "reply" /\ wTrace[i].op = op

\* Reply i is a 401 answer.
wIs401(i) == wTrace[i].resp.received /\ wTrace[i].resp.status = 401

wApiCalls == { i \in DOMAIN wTrace : wIsCall(i, "api") }

\* The invocation began with a call made with the stored access token, and
\* that call was answered 401.
wStoredToken401 ==
    /\ Len(wTrace) >= 2
    /\ wIsCall(1, "api")
    /\ wIsReply(2, "api")
    /\ wIs401(2)

\* C6: when the call made with the stored token yields 401, the call is
\* retried exactly once after one refresh-or-login cycle: it is never invoked
\* more than twice, and a retry answered 401 is terminal (no request follows
\* it).
C6_RetriedAtMostOnce ==
    wStoredToken401 =>
        /\ Cardinality(wApiCalls) <= 2
        /\ \A i \in DOMAIN wTrace :
               (i > 2 /\ wIsReply(i, "api") /\ wIs401(i)) => i = Len(wTrace)

\* C7: in an invocation that begins with a stored access token, a call that
\* fails with a status other than 401, or with a transport failure, is never
\* followed by a refresh or a login request; this includes the retried call.
C7_Only401TriggersRenewal ==
    \A i \in DOMAIN wTrace :
        (wIsCall(1, "api") /\ wIsReply(i, "api") /\ Failed(wTrace[i].resp)
           /\ ~wIs401(i)) =>
            \A j \in DOMAIN wTrace :
                j > i => ~(wIsCall(j, "refresh") \/ wIsCall(j, "login"))

\* Entry i of the trace is the answer 200 of the token endpoint to a refresh
\* or login request.
wIsRenewal(i) ==
    /\ wIsReply(i, "refresh") \/ wIsReply(i, "login")
    /\ ~Failed(wTrace[i].resp)

\* C25: the retried API call is issued only after the refresh or login call
\* has completed successfully and its tokens have been stored, and it
\* carries the newly obtained access token (never the stored token that was
\* rejected).
C25_RetryAfterRenewal ==
    /\ \A i \in wApiCalls :
           i > 1 =>
               /\ wIsRenewal(i - 1)
               /\ wTrace[i].secret = wTrace[i - 1].resp.data.access_token
               /\ wIsCall(1, "api") => wTrace[i].secret # wTrace[1].secret
    /\ wPc \in {"call2", "call3"} =>
           /\ wIsCall(Len(wTrace), "api")
           /\ user.aquacloud_access_token # Unset
           /\ decrypt(user.aquacloud_access_token) = wTrace[Len(wTrace)].secret
           /\ savedUser = user

\* The stored token was rejected, the refresh succeeded and the retried call
\* is in flight with the refreshed token.
C25_Witness ==
    /\ wPc = "call2"
    /\ wStoredToken401
    /\ Len(wTrace) = 5
    /\ wIsRenewal(4)
    /\ wTrace[5].secret = IssuedAccess("refresh")

\* The token endpoint answered 200 to the login request.
wLoginSucceeded ==
    \E i \in DOMAIN wTrace : wIsReply(i, "login") /\ ~Failed(wTrace[i].resp)

\* C30: the stored tokens are cleared and the 'Failed to authenticate' 401
\* response is produced only when the login request itself fails: when the
\* login succeeds, the tokens it obtained are still stored in the user
\* record when withAquaAuth returns, whatever the outcome of the retried
\* call.
C30_TokensKeptAfterLogin ==
    (wPc = "done" /\ wLoginSucceeded) =>
        /\ user.aquacloud_access_token = encrypt(IssuedAccess("login"))
        /\ savedUser.aquacloud_access_token = encrypt(IssuedAccess("login"))
        /\ wResponse.error #
               "Failed to authenticate with AquaCloud. Please check your credentials."

-----------------------------------------------------------------------------
(* getAquaAuth and withAuth: the sessions of the MCP server. *)

\* The sessions and the requests in flight at the same time.
Sessions == {"s1", "s2"}
Requests == {"q1", "q2"}

\* How far the clock advances, in ticks.
MaxTicks == 2

\* The 60s buffer subtracted from the expiry.
SafetyMarginMs == 60000

\* One tick of the clock is as long as the safety margin.
TickMs == SafetyMarginMs

\* The value of an arithmetic expression over a missing expires_in.
NaN == -1000000000

\* sessionMemory.aquaAuth: not set, or { token, refresh_token, expires_at }.
NoAquaAuth ==
    [present |-> FALSE, token |-> "undefined", refresh_token |-> "undefined",
     expires_at |-> NaN]

ExpiresAt_NoMargin(nowMs, tokens) ==
    IF tokens.expires_in = NoNumber THEN NaN
    ELSE nowMs + (tokens.expires_in * 1000)

\* Date.now() + (tokenData.expires_in * 1000) - 60000
ExpiresAt(nowMs, tokens) ==
    IF tokens.expires_in = NoNumber THEN NaN
    ELSE nowMs + (tokens.expires_in * 1000) - SafetyMarginMs

NewAquaAuth_KeepsOldToken(old, nowMs, tokens) ==
    [present |-> TRUE,
     token |-> IF old.present THEN old.token ELSE tokens.access_token,
     refresh_token |-> tokens.refresh_token,
     expires_at |-> ExpiresAt(nowMs, tokens)]

\* sessionMemory.aquaAuth = { token, refresh_token, expires_at }: a new object
\* built from the token response alone.
NewAquaAuth(old, nowMs, tokens) ==
    [present |-> TRUE,
     token |-> tokens.access_token,
     refresh_token |-> tokens.refresh_token,
     expires_at |-> ExpiresAt(nowMs, tokens)]

TokenValid_Inverted(aquaAuth, nowMs) ==
    /\ aquaAuth.present
    /\ aquaAuth.expires_at # NaN
    /\ aquaAuth.expires_at < nowMs

\* sessionMemory.aquaAuth && sessionMemory.aquaAuth.expires_at > Date.now()
TokenValid(aquaAuth, nowMs) ==
    /\ aquaAuth.present
    /\ aquaAuth.expires_at # NaN
    /\ aquaAuth.expires_at > nowMs

\* sessionMemory.aquaAuth && sessionMemory.aquaAuth.refresh_token
CanRefresh(aquaAuth) == aquaAuth.present /\ ~Falsy(aquaAuth.refresh_token)

\* { token: sessionMemory.aquaAuth.token, type: 'bearer' }
Credential(token) == [kind |-> "return", token |-> token, type |-> "bearer"]
AuthError(message) == [kind |-> "throw", token |-> message, type |-> ""]
NoCredential == [kind |-> "none", token |-> "", type |-> ""]

NoCalls == [refresh |-> 0, login |-> 0, api |-> 0]

\* getAquaAuth returns to withAuth.
aGranted(q, token) ==
    /\ rAuth' = [rAuth EXCEPT ![q] = Credential(token)]
    /\ rPc' = [rPc EXCEPT ![q] = "granted"]

aLogin_RetriesRefresh(q) ==
    /\ rCalls' = [rCalls EXCEPT ![q].refresh = @ + 1]
    /\ rPc' = [rPc EXCEPT ![q] = "refresh"]

\* Fallback to full login: the login request is sent.
aLogin(q) ==
    /\ rCalls' = [rCalls EXCEPT ![q].login = @ + 1]
    /\ rPc' = [rPc EXCEPT ![q] = "login"]

withAuth_Start_SingleFlight(q, s) ==
    /\ rPc[q] = "idle"
    /\ rSession' = [rSession EXCEPT ![q] = s]
    /\ LET aquaAuth == sessionMemory[s].aquaAuth IN
       IF \/ TokenValid(aquaAuth, now)
          \/ \E o \in Requests \ {q} :
                 rPc[o] \in {"refresh", "login"} /\ rSession[o] = s
       THEN /\ aGranted(q, aquaAuth.token)
            /\ UNCHANGED rCalls
       ELSE IF CanRefresh(aquaAuth)
            THEN /\ rCalls' = [rCalls EXCEPT ![q].refresh = @ + 1]
                 /\ rPc' = [rPc EXCEPT ![q] = "refresh"]
                 /\ UNCHANGED rAuth
            ELSE /\ aLogin(q)
                 /\ UNCHANGED rAuth
    /\ UNCHANGED <<now, sessionMemory, tokenData, rContent>>
    /\ UNCHANGED <<uVars, wVars, fVars, tVars>>

\* A tool is invoked for session s: withAuth calls getAquaAuth, which runs up
\* to its first await (or returns the cached token).  Every session is
\* created with its user, so the "User not found in session" throw is never
\* taken.
withAuth_Start(q, s) ==
    /\ rPc[q] = "idle"
    /\ rSession' = [rSession EXCEPT ![q] = s]
    /\ LET aquaAuth == sessionMemory[s].aquaAuth IN
       IF TokenValid(aquaAuth, now)
       THEN /\ aGranted(q, aquaAuth.token)
            /\ UNCHANGED rCalls
       ELSE IF CanRefresh(aquaAuth)
            THEN /\ rCalls' = [rCalls EXCEPT ![q].refresh = @ + 1]
                 /\ rPc' = [rPc EXCEPT ![q] = "refresh"]
                 /\ UNCHANGED rAuth
            ELSE /\ aLogin(q)
                 /\ UNCHANGED rAuth
    /\ UNCHANGED <<now, sessionMemory, tokenData, rContent>>
    /\ UNCHANGED <<uVars, wVars, fVars, tVars>>

\* The refresh call completed: a new aquaAuth and the credential, or the
\* fallback to the login.
getAquaAuth_RefreshDone(q, resp) ==
    /\ rPc[q] = "refresh"
    /\ LET refreshed == refreshToken(resp)
           s == rSession[q] IN
       IF refreshed.kind = "return"
       THEN /\ tokenData' = [tokenData EXCEPT ![q] = refreshed.data]
            /\ sessionMemory' =
                   [sessionMemory EXCEPT ![s].aquaAuth =
                        NewAquaAuth(@, now, refreshed.data)]
            /\ aGranted(q, refreshed.data.access_token)
            /\ UNCHANGED rCalls
       ELSE /\ aLogin(q)
            /\ UNCHANGED <<tokenData, sessionMemory, rAuth>>
    /\ UNCHANGED <<now, rSession, rContent>>
    /\ UNCHANGED <<uVars, wVars, fVars, tVars>>

\* The login call completed: a new aquaAuth and the credential, or the login
\* error, which withAuth catches and turns into an error result.
getAquaAuth_LoginDone(q, resp) ==
    /\ rPc[q] = "login"
    /\ LET loggedIn == login(resp)
           s == rSession[q] IN
       IF loggedIn.kind = "return"
       THEN /\ tokenData' = [tokenData EXCEPT ![q] = loggedIn.data]
            /\ sessionMemory' =
                   [sessionMemory EXCEPT ![s].aquaAuth =
                        NewAquaAuth(@, now, loggedIn.data)]
            /\ aGranted(q, loggedIn.data.access_token)
            /\ UNCHANGED rContent
       ELSE /\ rAuth' = [rAuth EXCEPT ![q] = AuthError(loggedIn.message)]
            /\ rContent' = [rContent EXCEPT ![q] = "Error"]
            /\ rPc' = [rPc EXCEPT ![q] = "done"]
            /\ UNCHANGED <<tokenData, sessionMemory>>
    /\ UNCHANGED <<now, rSession, rCalls>>
    /\ UNCHANGED <<uVars, wVars, fVars, tVars>>

\* withAuth calls toolFn(auth, aquaUrl), which sends its request with the
\* credential it was given.
withAuth_ToolCall(q) ==
    /\ rPc[q] = "granted"
    /\ rCalls' = [rCalls EXCEPT ![q].api = @ + 1]
    /\ rPc' = [rPc EXCEPT ![q] = "tool"]
    /\ UNCHANGED <<now, sessionMemory, rSession, tokenData, rAuth, rContent>>
    /\ UNCHANGED <<uVars, wVars, fVars, tVars>>

\* The request of the tool completed: its result, or the error result of the
\* catch block.  Nothing is retried.
withAuth_ToolDone(q, resp) ==
    /\ rPc[q] = "tool"
    /\ LET result == callApi(resp) IN
       rContent' = [rContent EXCEPT ![q] =
                        IF result.kind = "return" THEN result.data.body ELSE "Error"]
    /\ rPc' = [rPc EXCEPT ![q] = "done"]
    /\ UNCHANGED <<now, sessionMemory, rSession, tokenData, rAuth, rCalls>>
    /\ UNCHANGED <<uVars, wVars, fVars, tVars>>

\* The result was sent to the client: the request is over.
withAuth_Finish(q) ==
    /\ rPc[q] = "done"
    /\ rPc' = [rPc EXCEPT ![q] = "idle"]
    /\ rSession' = [rSession EXCEPT ![q] = "s1"]
    /\ tokenData' = [tokenData EXCEPT ![q] = NoTokenData]
    /\ rAuth' = [rAuth EXCEPT ![q] = NoCredential]
    /\ rCalls' = [rCalls EXCEPT ![q] = NoCalls]
    /\ rContent' = [rContent EXCEPT ![q] = ""]
    /\ UNCHANGED <<now, sessionMemory>>
    /\ UNCHANGED <<uVars, wVars, fVars, tVars>>

\* Time passes.
Tick ==
    /\ now + TickMs <= MaxTicks * TickMs
    /\ now' = now + TickMs
    /\ UNCHANGED <<sessionMemory, rPc, rSession, tokenData, rAuth, rCalls, rContent>>
    /\ UNCHANGED <<uVars, wVars, fVars, tVars>>

\* The sessions as the initialize request creates them: no aquaAuth yet.
InitAuth ==
    /\ now = 0
    /\ sessionMemory = [s \in Sessions |-> [aquaAuth |-> NoAquaAuth]]
    /\ rPc = [q \in Requests |-> "idle"]
    /\ rSession = [q \in Requests |-> "s1"]
    /\ tokenData = [q \in Requests |-> NoTokenData]
    /\ rAuth = [q \in Requests |-> NoCredential]
    /\ rCalls = [q \in Requests |-> NoCalls]
    /\ rContent = [q \in Requests |-> ""]

\* Two requests of one session, in any interleaving.
NextAuth ==
    \/ \E q \in Requests : withAuth_Start(q, "s1")
    \/ \E q \in Requests, resp \in TokenReplies("refresh") :
           getAquaAuth_RefreshDone(q, resp)
    \/ \E q \in Requests, resp \in TokenReplies("login") :
           getAquaAuth_LoginDone(q, resp)
    \/ \E q \in Requests : withAuth_ToolCall(q)
    \/ \E q \in Requests, resp \in ApiReplies : withAuth_ToolDone(q, resp)
    \/ \E q \in Requests : withAuth_Finish(q)
    \/ Tick

-----------------------------------------------------------------------------
(* Properties of getAquaAuth. *)

\* In this step getAquaAuth returns a credential to request q.
aReturns(q) == rPc[q] \in {"idle", "refresh", "login"} /\ rPc'[q] = "granted"

\* The session's aquaAuth when the step is over.
aAuthAfter(q) == sessionMemory'[rSession'[q]].aquaAuth

\* C8: whenever getAquaAuth returns a credential, the session's aquaAuth holds
\* the returned token and is not expired (now < expires_at), on the cached,
\* the refresh and the login path.
C8_ReturnedTokenNotExpired ==
    [][\A q \in Requests :
          aReturns(q) =>
              /\ aAuthAfter(q).present
              /\ aAuthAfter(q).token = rAuth'[q].token
              /\ aAuthAfter(q).expires_at # NaN
              /\ now' < aAuthAfter(q).expires_at]_vars

\* C8 as amended: whenever getAquaAuth returns a credential, the session's
\* aquaAuth holds the returned token; on the cached path now < expires_at; on
\* the refresh and the login path expires_at is the reported expiry minus
\* 60 s (now + expires_in * 1000 - 60000), so that now < expires_at exactly
\* when expires_in is a number above 60.
C8_ReturnedTokenExpiry ==
    [][\A q \in Requests :
          aReturns(q) =>
              /\ aAuthAfter(q).present
              /\ aAuthAfter(q).token = rAuth'[q].token
              /\ rAuth'[q].type = "bearer"
              /\ IF rPc[q] = "idle"
                 THEN /\ aAuthAfter(q).expires_at # NaN
                      /\ now' < aAuthAfter(q).expires_at
                 ELSE IF tokenData'[q].expires_in = NoNumber
                      THEN aAuthAfter(q).expires_at = NaN
                      ELSE /\ aAuthAfter(q).expires_at =
                                  now' + tokenData'[q].expires_in * 1000 - 60000
                           /\ (now' < aAuthAfter(q).expires_at)
                                  <=> (tokenData'[q].expires_in > 60)]_vars

\* getAquaAuth has returned the token of a login that reported 30 s: the
\* stored expiry is already behind the clock.
C8_Witness ==
    \E q \in Requests :
        /\ rPc[q] = "granted"
        /\ rCalls[q].login = 1
        /\ tokenData[q].expires_in = 30
        /\ sessionMemory[rSession[q]].aquaAuth.token = rAuth[q].token
        /\ sessionMemory[rSession[q]].aquaAuth.expires_at < now

\* C9: getAquaAuth called on a session whose aquaAuth is present with
\* now < expires_at returns the stored token as a bearer credential, issues no
\* refresh and no login call and leaves the session's memory unchanged.
C9_CachedToken ==
    [][\A q \in Requests, s \in Sessions :
          ( /\ withAuth_Start(q, s)
            /\ sessionMemory[s].aquaAuth.present
            /\ sessionMemory[s].aquaAuth.expires_at # NaN
            /\ now < sessionMemory[s].aquaAuth.expires_at ) =>
              /\ rPc'[q] = "granted"
              /\ rAuth'[q] = Credential(sessionMemory[s].aquaAuth.token)
              /\ rCalls'[q].refresh = 0
              /\ rCalls'[q].login = 0
              /\ sessionMemory' = sessionMemory]_vars

\* A request was given the cached token: no refresh, no login, and the
\* session holds a token that is still valid.
C9_Witness ==
    \E q \in Requests :
        /\ rPc[q] = "granted"
        /\ rCalls[q] = NoCalls
        /\ sessionMemory[rSession[q]].aquaAuth.present
        /\ now < sessionMemory[rSession[q]].aquaAuth.expires_at

\* C10: getAquaAuth called on a session with an expired token and a
\* remembered refresh token sends one refresh request; when that succeeds it
\* has made exactly one refresh call and no login call, the session's
\* aquaAuth is replaced by the new token and the refreshed access token is
\* returned.
C10_RefreshPath ==
    [][\A q \in Requests, s \in Sessions :
          /\ ( /\ withAuth_Start(q, s)
               /\ sessionMemory[s].aquaAuth.present
               /\ ~(now < sessionMemory[s].aquaAuth.expires_at)
               /\ sessionMemory[s].aquaAuth.refresh_token # "undefined" ) =>
                 /\ rPc'[q] = "refresh"
                 /\ rCalls'[q] = [refresh |-> 1, login |-> 0, api |-> 0]
          /\ ( /\ s = rSession[q]
               /\ rPc[q] = "refresh"
               /\ rPc'[q] = "granted" ) =>
                 /\ rCalls'[q] = [refresh |-> 1, login |-> 0, api |-> 0]
                 /\ tokenData'[q].access_token = IssuedAccess("refresh")
                 /\ sessionMemory'[s].aquaAuth.present
                 /\ sessionMemory'[s].aquaAuth.token = tokenData'[q].access_token
                 /\ rAuth'[q] = Credential(tokenData'[q].access_token)]_vars

\* getAquaAuth has returned the token of a successful refresh.
C10_Witness ==
    \E q \in Requests :
        /\ rPc[q] = "granted"
        /\ rCalls[q] = [refresh |-> 1, login |-> 0, api |-> 0]
        /\ rAuth[q] = Credential(IssuedAccess("refresh"))
        /\ sessionMemory[rSession[q]].aquaAuth.token = IssuedAccess("refresh")

\* The answers to a token request that make the call fail.
FailedTokenReplies(op) == { resp \in TokenReplies(op) : Failed(resp) }

\* C11: when getAquaAuth runs on a session with an expired token and the
\* refresh call fails, the refresh is not retried and its error is not
\* propagated: one login request is sent; when the login call completes the
\* request has made exactly one refresh and one login call and getAquaAuth
\* either returns the token obtained by the login or throws the login error.
C11_RefreshFailureFallsToLogin ==
    [][\A q \in Requests :
          /\ \A resp \in FailedTokenReplies("refresh") :
                 getAquaAuth_RefreshDone(q, resp) =>
                     /\ rPc'[q] = "login"
                     /\ rCalls'[q] = [refresh |-> 1, login |-> 1, api |-> 0]
                     /\ rAuth'[q] = NoCredential
                     /\ rContent'[q] = ""
          /\ ( /\ rPc[q] = "login"
               /\ rCalls[q].refresh = 1
               /\ rPc'[q] # "login" ) =>
                 /\ rCalls'[q] = [refresh |-> 1, login |-> 1, api |-> 0]
                 /\ \/ /\ rPc'[q] = "granted"
                       /\ rAuth'[q] = Credential(IssuedAccess("login"))
                       /\ aAuthAfter(q).token = IssuedAccess("login")
                    \/ /\ rPc'[q] = "done"
                       /\ \E resp \in FailedTokenReplies("login") :
                              rAuth'[q] = AuthError(callApi(resp).message)]_vars

\* The refresh failed, the login succeeded and getAquaAuth has returned the
\* token of the login.
C11_Witness ==
    \E q \in Requests :
        /\ rPc[q] = "granted"
        /\ rCalls[q] = [refresh |-> 1, login |-> 1, api |-> 0]
        /\ rAuth[q] = Credential(IssuedAccess("login"))
        /\ sessionMemory[rSession[q]].aquaAuth.token = IssuedAccess("login")

\* C12: after a successful refresh whose response omits a new refresh token,
\* the session keeps the previous refresh token: the refresh token stored
\* after the refresh equals the one stored before it.  (Stated for token
\* responses that report their expires_in.)
C12_RefreshTokenKept ==
    [][\A q \in Requests :
          ( /\ rPc[q] = "refresh"
            /\ rPc'[q] = "granted"
            /\ sessionMemory[rSession[q]].aquaAuth.expires_at # NaN
            /\ tokenData'[q].expires_in # NoNumber
            /\ tokenData'[q].refresh_token = "undefined" ) =>
              aAuthAfter(q).refresh_token =
                  sessionMemory[rSession[q]].aquaAuth.refresh_token]_vars

\* The token of session s is expired (or there is none).
Expired(s) ==
    \/ ~sessionMemory[s].aquaAuth.present
    \/ sessionMemory[s].aquaAuth.expires_at = NaN
    \/ sessionMemory[s].aquaAuth.expires_at <= now

\* The renewal call (refresh or login) of request q is in flight.
Renewing(q) == rPc[q] \in {"refresh", "login"}

\* C21: token renewal is not mutually excluded within a session: a
\* getAquaAuth call that observes an expired token while the renewal call of
\* another request of the same session is in flight issues its own refresh
\* or login call, and the other request's call stays in flight.
C21_NoMutualExclusion ==
    [][\A q \in Requests, o \in Requests :
          ( /\ o # q
            /\ rPc[q] = "idle"
            /\ rPc'[q] # "idle"
            /\ Expired(rSession'[q])
            /\ Renewing(o)
            /\ rSession[o] = rSession'[q] ) =>
              /\ rPc'[q] \in {"refresh", "login"}
              /\ rCalls'[q].refresh + rCalls'[q].login = 1
              /\ rPc'[o] = rPc[o]]_vars

\* Two refresh calls of one session are in flight at the same time.
C21_Witness ==
    /\ rPc["q1"] = "refresh"
    /\ rPc["q2"] = "refresh"
    /\ rSession["q1"] = rSession["q2"]
    /\ rCalls["q1"].refresh = 1
    /\ rCalls["q2"].refresh = 1

\* C23: in every reachable state the aquaAuth of a session is either wholly
\* absent or has all three fields populated (token, refresh_token,
\* expires_at), whatever the refresh and login responses were, including
\* responses that omit a field.
C23_TokenWhollyPopulated ==
    \A s \in Sessions :
        sessionMemory[s].aquaAuth.present =>
            /\ sessionMemory[s].aquaAuth.token # "undefined"
            /\ sessionMemory[s].aquaAuth.refresh_token # "undefined"
            /\ sessionMemory[s].aquaAuth.expires_at # NaN

-----------------------------------------------------------------------------
(* parseAquaItemId. *)

\* A string is the sequence of its characters.  The characters of the raw
\* IDs: letters of the three prefixes in both cases, digits and a character
\* that is neither.
Chars == {"R", "r", "Q", "q", "T", "c", "d", "F", "0", "7", "x"}

\* The longest raw ID.
MaxLen == 4

\* \d
Digits == {"0", "1", "2", "3", "4", "5", "6", "7", "8", "9"}

\* A value passed as rawId: a string, or a value that is not a string
\* (undefined, null, a number).
StringValue(chars) == [type |-> "string", chars |-> chars]
OtherValue(type) == [type |-> type, chars |-> << >>]

RawIds ==
    { StringValue(chars) : chars \in UNION { [1..n -> Chars] : n \in 0..MaxLen } }
    \cup { OtherValue(type) : type \in {"undefined", "null", "number"} }

\* The values passed as explicitType: missing, null, or a string.
ExplicitTypes == {"undefined", "null", "", "Defect"}

\* What parseAquaItemId returns ({ itemId, itemType }) or throws.
Parsed(itemId, itemType) ==
    [kind |-> "return", itemId |-> itemId, itemType |-> itemType, message |-> ""]

ParseError(message) ==
    [kind |-> "throw", itemId |-> << >>, itemType |-> "", message |-> message]

NoParsed == [kind |-> "none", itemId |-> << >>, itemType |-> "", message |-> ""]

InvalidRawId_OnlyEmptyString(id) == id.type = "string" /\ id.chars = << >>

\* if (!rawId || typeof rawId !== 'string')
InvalidRawId(id) ==
    \/ id.type \in {"undefined", "null"}
    \/ id.type = "string" /\ id.chars = << >>
    \/ id.type # "string"

Match_AnySuffix(chars, first, second) ==
    /\ Len(chars) >= 3
    /\ chars[1] \in first
    /\ chars[2] \in second

\* rawId.match(/^[rR][qQ](\d+)$/) and the like: the two letters of the
\* prefix, in either case, followed by one or more digits up to the end.
Match(chars, first, second) ==
    /\ Len(chars) >= 3
    /\ chars[1] \in first
    /\ chars[2] \in second
    /\ \A i \in 3..Len(chars) : chars[i] \in Digits

Capture_DropsLeadingZero(chars) ==
    IF Len(chars) >= 4 /\ chars[3] = "0"
    THEN SubSeq(chars, 4, Len(chars))
    ELSE SubSeq(chars, 3, Len(chars))

\* match[1]: the captured digits.
Capture(chars) == SubSeq(chars, 3, Len(chars))

\* prefixType: the type of the first pattern that matches, or null.
PrefixType(chars) ==
    IF Match(chars, {"r", "R"}, {"q", "Q"}) THEN "Requirement"
    ELSE IF Match(chars, {"t", "T"}, {"c", "C"}) THEN "TestCase"
    ELSE IF Match(chars, {"d", "D"}, {"f", "F"}) THEN "Defect"
    ELSE "null"

\* finalId: the captured digits of the pattern that matched, or the rawId.
FinalId(chars) ==
    IF PrefixType(chars) # "null" THEN Capture(chars) ELSE chars

FinalType_PrefixWins(explicit, prefixType) ==
    IF ~Falsy(prefixType) THEN prefixType ELSE explicit

\* finalType: explicitType, or prefixType if (!finalType).
FinalType(explicit, prefixType) ==
    IF ~Falsy(explicit) THEN explicit ELSE prefixType

parseAquaItemId(id, explicit) ==
    IF InvalidRawId(id)
    THEN ParseError("Invalid or missing item ID provided to parser.")
    ELSE LET finalType == FinalType(explicit, PrefixType(id.chars)) IN
         IF Falsy(finalType)
         THEN ParseError("Could not determine itemType for ID")
         ELSE Parsed(FinalId(id.chars), finalType)

\* The call.
parseAquaItemId_Call ==
    /\ pPc = "call"
    /\ parsed' = parseAquaItemId(rawId, explicitType)
    /\ pPc' = "done"
    /\ UNCHANGED <<rawId, explicitType, cPc, cResp, cOutcome, cStatuses>>
    /\ UNCHANGED <<uVars, wVars, aVars, tVars>>

\* No call of parseAquaItemId is under way.
InitParse ==
    /\ pPc = "idle"
    /\ rawId = OtherValue("undefined")
    /\ explicitType = "undefined"
    /\ parsed = NoParsed

\* A call of parseAquaItemId with any arguments.
InitParseCall ==
    /\ pPc = "call"
    /\ rawId \in RawIds
    /\ explicitType \in ExplicitTypes
    /\ parsed = NoParsed

NextParse == parseAquaItemId_Call

-----------------------------------------------------------------------------
(* Properties of parseAquaItemId. *)

\* The recognized prefixes with the type each stands for.
Prefixes ==
    { [first |-> {"R", "r"}, second |-> {"Q", "q"}, type |-> "Requirement"],
      [first |-> {"T", "t"}, second |-> {"C", "c"}, type |-> "TestCase"],
      [first |-> {"D", "d"}, second |-> {"F", "f"}, type |-> "Defect"] }

\* chars is prefix p, in any letter case, followed by a non-empty digit string.
IsPrefixed(chars, p) ==
    /\ Len(chars) > 2
    /\ chars[1] \in p.first
    /\ chars[2] \in p.second
    /\ \A i \in DOMAIN chars : i > 2 => chars[i] \in Digits

Recognized(chars) == \E p \in Prefixes : IsPrefixed(chars, p)

\* The characters after the two letters of the prefix.
DigitsOf(chars) == [i \in 1..(Len(chars) - 2) |-> chars[i + 2]]

\* The call is over and its rawId was a non-empty string.
pDoneOnString == pPc = "done" /\ rawId.type = "string" /\ rawId.chars # << >>

InvalidIdentifier == ParseError("Invalid or missing item ID provided to parser.")
UnresolvedItemType == ParseError("Could not determine itemType for ID")

\* C14: for every recognized prefix P (any letter case) and every non-empty
\* digit string D, parseAquaItemId(P+D) with no explicit type returns the
\* digits D unchanged (leading zeros kept) and the type mapped to P.
C14_PrefixedIdParsed ==
    (pDoneOnString /\ explicitType \in {"undefined", "null"}) =>
        \A p \in Prefixes :
            IsPrefixed(rawId.chars, p) =>
                parsed = Parsed(DigitsOf(rawId.chars), p.type)

\* parseAquaItemId("rQ07") returned { itemId: "07", itemType: "Requirement" }.
C14_Witness ==
    /\ pPc = "done"
    /\ rawId = StringValue(<<"r", "Q", "0", "7">>)
    /\ explicitType = "undefined"
    /\ parsed = Parsed(<<"0", "7">>, "Requirement")

\* What C15 says of a call with rawId chars and explicitType explicit.
ExplicitTypeWins(chars, explicit) ==
    /\ parsed.kind = "return"
    /\ parsed.itemType = explicit
    /\ Recognized(chars) => parsed.itemId = DigitsOf(chars)

\* C15: for every non-empty raw ID and every explicitType string,
\* parseAquaItemId returns itemType equal to explicitType whatever prefix the
\* raw ID carries, and the ID it returns is the digit suffix when the raw ID
\* carries a recognized prefix.
C15_ExplicitTypeWins ==
    (pDoneOnString /\ explicitType \notin {"undefined", "null"}) =>
        ExplicitTypeWins(rawId.chars, explicitType)

\* C15 as amended: for every non-empty raw ID and every non-empty
\* explicitType string, parseAquaItemId returns itemType equal to
\* explicitType whatever prefix the raw ID carries, and the ID it returns is
\* the digit suffix when the raw ID carries a recognized prefix; with the
\* empty string as explicitType the type is that of the prefix, and the call
\* fails with UnresolvedItemType when there is none.
C15_NonEmptyExplicitTypeWins ==
    pDoneOnString =>
        /\ explicitType \notin {"undefined", "null", ""} =>
               ExplicitTypeWins(rawId.chars, explicitType)
        /\ explicitType = "" =>
               /\ \A p \in Prefixes :
                      IsPrefixed(rawId.chars, p) =>
                          parsed = Parsed(DigitsOf(rawId.chars), p.type)
               /\ ~Recognized(rawId.chars) => parsed = UnresolvedItemType

\* parseAquaItemId("RQ07", "Defect") returned { itemId: "07", itemType:
\* "Defect" }.
C15_Witness ==
    /\ pPc = "done"
    /\ rawId = StringValue(<<"R", "Q", "0", "7">>)
    /\ explicitType = "Defect"
    /\ parsed = Parsed(<<"0", "7">>, "Defect")

\* C16: parseAquaItemId fails with the invalid-identifier error, and returns
\* no identifier, whenever rawId is not a non-empty string (the empty string,
\* undefined, null, a value that is not a string), for every explicitType.
C16_InvalidRawIdRejected ==
    (pPc = "done" /\ ~(rawId.type = "string" /\ rawId.chars # << >>)) =>
        /\ parsed.kind = "throw"
        /\ parsed = InvalidIdentifier

\* parseAquaItemId(12345, "Defect") threw the invalid-identifier error.
C16_Witness ==
    /\ pPc = "done"
    /\ rawId = OtherValue("number")
    /\ explicitType = "Defect"
    /\ parsed = InvalidIdentifier

\* C17: parseAquaItemId(undefined, undefined) fails with UnresolvedItemType,
\* and parseAquaItemId("", anything) fails with InvalidIdentifier.
C17_UndefinedIsUnresolved ==
    pPc = "done" =>
        /\ (rawId = OtherValue("undefined") /\ explicitType = "undefined") =>
               parsed = UnresolvedItemType
        /\ rawId = StringValue(<< >>) => parsed = InvalidIdentifier

\* C17 as amended: parseAquaItemId(undefined, undefined) fails with
\* InvalidIdentifier, as parseAquaItemId("", anything) does.
C17_UndefinedIsInvalid ==
    pPc = "done" =>
        /\ (rawId = OtherValue("undefined") /\ explicitType = "undefined") =>
               parsed = InvalidIdentifier
        /\ rawId = StringValue(<< >>) => parsed = InvalidIdentifier

\* parseAquaItemId(undefined, undefined) threw the invalid-identifier error.
C17_Witness ==
    /\ pPc = "done"
    /\ rawId = OtherValue("undefined")
    /\ explicitType = "undefined"
    /\ parsed = InvalidIdentifier

\* C18: for a non-empty raw ID that matches no recognized prefix pattern,
\* parseAquaItemId fails with UnresolvedItemType when no explicitType is
\* supplied (undefined, null), and returns the raw string unchanged with the
\* explicit type when an explicitType is supplied.
C18_UnprefixedId ==
    (pDoneOnString /\ ~Recognized(rawId.chars)) =>
        parsed = IF explicitType \in {"undefined", "null"}
                 THEN UnresolvedItemType
                 ELSE Parsed(rawId.chars, explicitType)

\* C18 as amended: for a non-empty raw ID that matches no recognized prefix
\* pattern, parseAquaItemId fails with UnresolvedItemType when explicitType
\* is undefined, null or the empty string, and returns the raw string
\* unchanged with the explicit type when explicitType is a non-empty string.
C18_UnprefixedIdNonEmptyType ==
    (pDoneOnString /\ ~Recognized(rawId.chars)) =>
        parsed = IF explicitType \in {"undefined", "null", ""}
                 THEN UnresolvedItemType
                 ELSE Parsed(rawId.chars, explicitType)

\* parseAquaItemId("RQx", "Defect") returned { itemId: "RQx", itemType:
\* "Defect" }.
C18_Witness ==
    /\ pPc = "done"
    /\ rawId = StringValue(<<"R", "Q", "x">>)
    /\ explicitType = "Defect"
    /\ parsed = Parsed(<<"R", "Q", "x">>, "Defect")

-----------------------------------------------------------------------------
(* One Tracker call: callApi over the HTTP statuses, getStatusesForProject. *)

HttpStatuses == 100..599

\* The bodies of the answers: a status list ({ Entries: [...] }), another
\* object, an empty body.
CallBodies ==
    { Payload("Entries", FALSE, "undefined"),
      Payload("other", FALSE, "undefined"),
      Payload("", FALSE, "undefined") }

CallReplies ==
    { Received(s, d) : s \in HttpStatuses, d \in CallBodies }
    \cup { NotReceived("network") }

\* What getStatusesForProject returns: a list of { id, name }.
StatusList(list) == [kind |-> "return", list |-> list]
NoStatusList == [kind |-> "none", list |-> ""]

\* try { response = await callApi(..); return response.Entries ? ...map.. : [] }
\* catch (error) { return [] }
getStatusesForProject(resp) ==
    LET response == callApi(resp) IN
    IF response.kind = "return" /\ response.data.body = "Entries"
    THEN StatusList("[{id,name}]")
    ELSE StatusList("[]")

\* callApi is called and completes.
callApi_Call ==
    /\ cPc = "ready"
    /\ cOutcome' = callApi(cResp)
    /\ cPc' = "called"
    /\ UNCHANGED <<cResp, cStatuses, pPc, rawId, explicitType, parsed>>
    /\ UNCHANGED <<uVars, wVars, aVars, tVars>>

\* getStatusesForProject is called and completes.
getStatusesForProject_Call ==
    /\ cPc = "ready"
    /\ cStatuses' = getStatusesForProject(cResp)
    /\ cPc' = "statuses"
    /\ UNCHANGED <<cResp, cOutcome, pPc, rawId, explicitType, parsed>>
    /\ UNCHANGED <<uVars, wVars, aVars, tVars>>

\* No Tracker call is under way.
InitCalls ==
    /\ cPc = "idle"
    /\ cResp = NotReceived("")
    /\ cOutcome = NoOutcome
    /\ cStatuses = NoStatusList

\* A Tracker call that the transport answers in any way.
InitCallsReady ==
    /\ cPc = "ready"
    /\ cResp \in CallReplies
    /\ cOutcome = NoOutcome
    /\ cStatuses = NoStatusList

NextCalls ==
    \/ callApi_Call
    \/ getStatusesForProject_Call

-----------------------------------------------------------------------------
(* Properties of the Tracker calls. *)

\* The four ways a call can end.
IsSuccess(outcome, resp) ==
    outcome.kind = "return" /\ outcome.data = resp.data

IsAuthFailure(outcome, resp) ==
    /\ outcome.kind = "throw"
    /\ outcome.hasResponse
    /\ outcome.status = 401

IsApiFailure(outcome, resp) ==
    /\ outcome.kind = "throw"
    /\ outcome.hasResponse
    /\ outcome.status # 401
    /\ outcome.status = resp.status
    /\ outcome.data = resp.data

IsTransportFailure(outcome, resp) ==
    outcome.kind = "throw" /\ ~outcome.hasResponse

\* How many of the four the outcome is.
OutcomeKinds(outcome, resp) ==
    Cardinality({ k \in 1..4 :
        \/ k = 1 /\ IsSuccess(outcome, resp)
        \/ k = 2 /\ IsAuthFailure(outcome, resp)
        \/ k = 3 /\ IsApiFailure(outcome, resp)
        \/ k = 4 /\ IsTransportFailure(outcome, resp) })

\* C19: every callApi invocation ends in exactly one of four outcomes, which
\* the transport result determines: Success (the payload is returned) for a
\* status in 200..299, AuthFailure (an error carrying status 401) for status
\* 401 whatever the body, ApiFailure (an error carrying the status and the
\* payload) for every other status, TransportFailure (an error with no
\* response attached) when no response was received.
C19_FourOutcomes ==
    cPc = "called" =>
        /\ OutcomeKinds(cOutcome, cResp) = 1
        /\ IsSuccess(cOutcome, cResp) <=>
               (cResp.received /\ cResp.status \in 200..299)
        /\ IsAuthFailure(cOutcome, cResp) <=>
               (cResp.received /\ cResp.status = 401)
        /\ IsApiFailure(cOutcome, cResp) <=>
               (cResp.received /\ cResp.status \notin (200..299) \cup {401})
        /\ IsTransportFailure(cOutcome, cResp) <=> ~cResp.received

\* A 401 answer whose body is a well-formed status list was classified as an
\* authentication error.
C19_Witness ==
    /\ cPc = "called"
    /\ cResp = Received(401, Payload("Entries", FALSE, "undefined"))
    /\ IsAuthFailure(cOutcome, cResp)
    /\ ~IsSuccess(cOutcome, cResp)

\* C20: no error is silently dropped: a Tracker call of an operation that
\* does not succeed reaches the caller of the operation as a failure; no
\* operation turns a failed Tracker call into a normal result.
C20_NoErrorDropped ==
    (cPc = "statuses" /\ Failed(cResp)) => cStatuses.kind = "throw"

-----------------------------------------------------------------------------
(* The session store: initialize, the x-task-id header, close. *)

\* The values of the x-task-id header; "undefined" when it is not sent.
TaskIds == {"Tc7", "7"}

\* The characters of a task id.
CharsOf(taskId) ==
    IF taskId = "Tc7" THEN <<"T", "c", "7">>
    ELSE IF taskId = "7" THEN <<"7">>
    ELSE << >>

\* The user object built from the headers of the initialize request of s.
SessionUser(s) == IF s = "s1" THEN "user1" ELSE "user2"

\* The session one client sends with each of its requests.
RequestSession(q) == IF q = "q1" THEN "s1" ELSE "s2"

\* The token responses in the runs of the session store: a 200 answer with
\* its refresh token and an expiry at or above the margin, or a failure.
SessionTokenReplies(op) ==
    { resp \in TokenReplies(op) :
          /\ resp.received
          /\ resp.status # 500
          /\ resp.status = 200 =>
                 /\ resp.data.refresh_token # "undefined"
                 /\ resp.data.expires_in \in {60, 120} }

UpdateTaskId_AllSessions(taskIds, s, header) == [o \in Sessions |-> header]

\* sessionMemoryStore[currentSessionId].taskId = req.headers['x-task-id']
UpdateTaskId(taskIds, s, header) == [taskIds EXCEPT ![s] = header]

\* An initialize request with its credential headers creates session s (a
\* new random id) with its memory: the user, the task id, no aquaAuth.  The
\* handler runs up to await server.connect(transport).
initializeSession(s, header) ==
    /\ initPc[s] = "none"
    /\ s \notin sessionMemoryStore
    /\ sessionUser[s] = "undefined"
    /\ sessionMemoryStore' = sessionMemoryStore \cup {s}
    /\ initPc' = [initPc EXCEPT ![s] = "connect"]
    /\ UNCHANGED <<sessionTransports, mcpStatus>>
    /\ sessionUser' = [sessionUser EXCEPT ![s] = SessionUser(s)]
    /\ sessionTaskId' = [sessionTaskId EXCEPT ![s] =
                             IF Falsy(header) THEN "null" ELSE header]
    /\ sessionMemory' = [sessionMemory EXCEPT ![s] = [aquaAuth |-> NoAquaAuth]]
    /\ UNCHANGED <<now, rPc, rSession, tokenData, rAuth, rCalls, rContent>>
    /\ UNCHANGED <<tTool, tInput, tParsed, tCalls>>
    /\ UNCHANGED <<uVars, wVars, fVars>>

\* server.connect resolved: transport.handleRequest handles the initialize
\* request and onsessioninitialized stores the transport.  transport.sessionId
\* is not set before, so the x-task-id block is skipped.
initializeSession_Connected(s) ==
    /\ initPc[s] = "connect"
    /\ sessionTransports' = sessionTransports \cup {s}
    /\ initPc' = [initPc EXCEPT ![s] = "open"]
    /\ UNCHANGED <<sessionMemoryStore, mcpStatus, sessionUser, sessionTaskId,
                   tTool, tInput, tParsed, tCalls>>
    /\ UNCHANGED <<uVars, wVars, aVars, fVars>>

\* server.connect rejected: the catch block answers 500.  It deletes nothing.
initializeSession_Failed(s) ==
    /\ initPc[s] = "connect"
    /\ initPc' = [initPc EXCEPT ![s] = "failed"]
    /\ UNCHANGED <<sessionMemoryStore, sessionTransports, mcpStatus, sessionUser,
                   sessionTaskId, tTool, tInput, tParsed, tCalls>>
    /\ UNCHANGED <<uVars, wVars, aVars, fVars>>

\* A request of session s carries an x-task-id header that differs from the
\* task id of the session.
mcpRequest_TaskId(s, header) ==
    /\ s \in sessionTransports
    /\ s \in sessionMemoryStore
    /\ sessionTaskId[s] # header
    /\ sessionTaskId' = UpdateTaskId(sessionTaskId, s, header)
    /\ UNCHANGED <<sessionMemoryStore, sessionTransports, initPc, mcpStatus,
                   sessionUser, tTool, tInput, tParsed, tCalls>>
    /\ UNCHANGED <<uVars, wVars, aVars, fVars>>

\* A request that is not an initialize request carries an id that has no
\* transport: 400.
mcpRequest_BadRequest(s) ==
    /\ s \notin sessionTransports
    /\ mcpStatus' = [mcpStatus EXCEPT ![s] = 400]
    /\ UNCHANGED <<sessionMemoryStore, sessionTransports, initPc, sessionUser,
                   sessionTaskId, tTool, tInput, tParsed, tCalls>>
    /\ UNCHANGED <<uVars, wVars, aVars, fVars>>

\* transport.onclose: the session leaves both stores.  The memory object
\* stays with the requests of the session that are still running.
closeSession(s) ==
    /\ s \in sessionTransports
    /\ sessionTransports' = sessionTransports \ {s}
    /\ sessionMemoryStore' = sessionMemoryStore \ {s}
    /\ initPc' = [initPc EXCEPT ![s] = "closed"]
    /\ UNCHANGED <<mcpStatus, sessionUser, sessionTaskId, tTool, tInput, tParsed,
                   tCalls>>
    /\ UNCHANGED <<uVars, wVars, aVars, fVars>>

\* A tool call arrives on session s: the transport is looked up by the
\* mcp-session-id header and the tool runs under withAuth.
mcpPost_Tool(q, s) ==
    /\ s \in sessionTransports
    /\ withAuth_Start(q, s)

\* The sessions of the other runs: both initialized, no task id.
InitStore ==
    /\ sessionMemoryStore = Sessions
    /\ sessionTransports = Sessions
    /\ initPc = [s \in Sessions |-> "open"]
    /\ mcpStatus = [s \in Sessions |-> 0]
    /\ sessionUser = [s \in Sessions |-> SessionUser(s)]
    /\ sessionTaskId = [s \in Sessions |-> "null"]

\* The server after start: no session yet.
InitStoreEmpty ==
    /\ sessionMemoryStore = {}
    /\ sessionTransports = {}
    /\ initPc = [s \in Sessions |-> "none"]
    /\ mcpStatus = [s \in Sessions |-> 0]
    /\ sessionUser = [s \in Sessions |-> "undefined"]
    /\ sessionTaskId = [s \in Sessions |-> "undefined"]

\* No tool of the server is modelled.
InitNoTool ==
    /\ tTool = "none"
    /\ tInput = [itemId |-> OtherValue("undefined"), itemType |-> "undefined"]
    /\ tParsed = NoParsed
    /\ tCalls = << >>

\* Two clients, each with its own session, in any interleaving.
NextSessions ==
    \/ \E s \in Sessions, header \in TaskIds \cup {"undefined"} :
           initializeSession(s, header)
    \/ \E s \in Sessions : initializeSession_Connected(s)
    \/ \E s \in Sessions : initializeSession_Failed(s)
    \/ \E s \in Sessions, header \in TaskIds : mcpRequest_TaskId(s, header)
    \/ \E s \in Sessions : mcpRequest_BadRequest(s)
    \/ \E s \in Sessions : closeSession(s)
    \/ \E q \in Requests : mcpPost_Tool(q, RequestSession(q))
    \/ \E q \in Requests, resp \in SessionTokenReplies("refresh") :
           getAquaAuth_RefreshDone(q, resp)
    \/ \E q \in Requests, resp \in SessionTokenReplies("login") :
           getAquaAuth_LoginDone(q, resp)
    \/ \E q \in Requests : withAuth_ToolCall(q)
    \/ \E q \in Requests, resp \in ApiReplies : withAuth_ToolDone(q, resp)
    \/ \E q \in Requests : withAuth_Finish(q)

-----------------------------------------------------------------------------
(* Properties of the session store. *)

\* Everything the server holds for session s.
Entry(s) ==
    [stored |-> s \in sessionMemoryStore, transport |-> s \in sessionTransports,
     memory |-> sessionMemory[s],
     user |-> sessionUser[s], taskId |-> sessionTaskId[s]]

\* The sessions whose entry the step changes.
ChangedSessions == { s \in Sessions : Entry(s)' # Entry(s) }

\* The step belongs to request q.
StepOf(q) == rPc'[q] # rPc[q]

\* The session of the request that takes the step.
SessionOf(q) == IF rPc[q] = "idle" THEN rSession'[q] ELSE rSession[q]

\* C26: sessions are independent: an operation performed for one session
\* (getAquaAuth and the tool call of a request, a task-id header update, the
\* creation or the close of a session) changes the entry of that session
\* only; the aquaAuth, the user and the task id of every other session stay
\* as they were, in every interleaving of the requests of two sessions.
C26_SessionsIndependent ==
    [][/\ Cardinality(ChangedSessions) <= 1
       /\ \A q \in Requests : StepOf(q) => ChangedSessions \subseteq {SessionOf(q)}
       /\ \A s \in Sessions :
              /\ closeSession(s) => ChangedSessions = {s}
              /\ \A header \in TaskIds \cup {"undefined"} :
                     initializeSession(s, header) => ChangedSessions = {s}
              /\ \A header \in TaskIds :
                     mcpRequest_TaskId(s, header) => ChangedSessions = {s}]_vars

\* Session s1 has refreshed its token and taken a new task id while session
\* s2, closed since, still has a request running on the login token.
C26_Witness ==
    /\ sessionMemoryStore = {"s1"}
    /\ sessionTransports = {"s1"}
    /\ sessionMemory["s1"].aquaAuth.token = IssuedAccess("refresh")
    /\ sessionTaskId["s1"] = "7"
    /\ sessionUser["s2"] = SessionUser("s2")
    /\ sessionMemory["s2"].aquaAuth.token = IssuedAccess("login")
    /\ sessionTaskId["s2"] = "null"
    /\ rPc["q2"] = "tool"

\* Request q takes a step from one position to another.
Moves(q, from, to) == rPc[q] = from /\ rPc'[q] = to

\* C31: a getAquaAuth call that ends in the terminal authentication failure
\* leaves the aquaAuth of its session as it was: neither the failed refresh
\* nor the failed login writes to it.  The aquaAuth of a session is replaced
\* only by the step in which a refresh or a login of that session succeeds,
\* and then by the token that this response issued.
C31_FailureKeepsTokenState ==
    [][/\ \A q \in Requests :
              /\ Moves(q, "refresh", "login") => sessionMemory' = sessionMemory
              /\ Moves(q, "login", "done") =>
                     /\ rAuth'[q].kind = "throw"
                     /\ sessionMemory' = sessionMemory
       /\ \A s \in Sessions :
              sessionMemory'[s] # sessionMemory[s] =>
                  \E q \in Requests, op \in {"refresh", "login"} :
                      /\ rSession[q] = s
                      /\ Moves(q, op, "granted")
                      /\ tokenData'[q].access_token = IssuedAccess(op)
                      /\ sessionMemory'[s].aquaAuth.token = IssuedAccess(op)]_vars

\* The token of session s1 had expired; the refresh and then the login of
\* request q1 failed, and the session still holds the expired token.
C31_Witness ==
    /\ rPc["q1"] = "done"
    /\ rAuth["q1"].kind = "throw"
    /\ rCalls["q1"] = [refresh |-> 1, login |-> 1, api |-> 0]
    /\ sessionMemory["s1"].aquaAuth.present
    /\ sessionMemory["s1"].aquaAuth.token = IssuedAccess("login")
    /\ Expired("s1")

\* No initialize request is between storing the session memory and the end
\* of its handler.
NoInitializeInProgress == \A s \in Sessions : initPc[s] # "connect"

\* C32: whenever no initialize request is in progress, sessionMemoryStore has
\* an entry for a session id if and only if sessionTransports has one, over
\* successful and failed initializations and closes; a closed session has an
\* entry in neither store and a request carrying its id is answered 400.
C32_StoresConsistent ==
    /\ NoInitializeInProgress => sessionMemoryStore = sessionTransports
    /\ \A s \in Sessions :
           initPc[s] = "closed" =>
               /\ s \notin sessionMemoryStore
               /\ s \notin sessionTransports
               /\ mcpStatus[s] \in {0, 400}

-----------------------------------------------------------------------------
(* The tool handlers: get-item-details, get-test-steps, add-test-steps. *)

Tools == {"get-item-details", "get-test-steps", "add-test-steps"}

\* The itemId (testCaseId for get-test-steps) of the input: z.string()
\* .optional(), so a string or undefined.
ToolItemIds ==
    { OtherValue("undefined"), StringValue(<< >>) }
    \cup { StringValue(chars) :
               chars \in { <<"R", "Q", "7">>, <<"T", "c", "0", "7">>,
                           <<"d", "F", "7">>, <<"7">>, <<"x">> } }

\* The itemType of the input: a string or undefined.
ToolItemTypes == {"undefined", "", "Defect", "TestCase", "testcase"}

\* sessionMemory.taskId as a value.
TaskIdValue(taskId) ==
    IF Falsy(taskId) THEN OtherValue(taskId) ELSE StringValue(CharsOf(taskId))

\* The value is truthy.
Truthy(id) == id.type = "string" /\ id.chars # << >>

\* const rawItemId = input.itemId || sessionMemory.taskId
RawItemId(input, taskId) ==
    IF Truthy(input.itemId) THEN input.itemId ELSE TaskIdValue(taskId)

\* The second argument of parseAquaItemId: input.itemType for
\* get-item-details, 'TestCase' for get-test-steps, and for add-test-steps
\* input.itemType || 'TestCase' after the schema default 'TestCase'.
ExplicitTypeOf(tool, input) ==
    IF tool = "get-item-details" THEN input.itemType
    ELSE IF tool = "get-test-steps" THEN "TestCase"
    ELSE LET withDefault == IF input.itemType = "undefined" THEN "TestCase"
                            ELSE input.itemType
         IN IF Falsy(withDefault) THEN "TestCase" ELSE withDefault

\* itemType.toLowerCase()
toLowerCase(type) ==
    IF type \in {"TestCase", "testcase"} THEN "testcase"
    ELSE IF type = "Defect" THEN "defect"
    ELSE IF type = "Requirement" THEN "requirement"
    ELSE type

\* The handler compares itemType.toLowerCase() with 'testcase'.
ChecksTestCase(tool) == tool \in {"get-test-steps", "add-test-steps"}

\* The first request of the handler.
FirstRequest(tool) ==
    IF tool = "get-item-details" THEN "getItemDetails" ELSE "getTestSteps"

MissingItemId == "Error: No itemId provided and none found in session."
NotATestCase == "Error: The provided ID does not appear to be a TestCase."

\* Where toolFn stands at its first await, or what it returned before it.
ToolStep(toolParsed, content, request) ==
    [parsed |-> toolParsed, content |-> content, request |-> request]

toolFn_RequestsFirst(tool, input, taskId) ==
    LET raw == RawItemId(input, taskId) IN
    IF ~Truthy(raw)
    THEN ToolStep(NoParsed, MissingItemId, "none")
    ELSE ToolStep(parseAquaItemId(raw, ExplicitTypeOf(tool, input)), "",
                  FirstRequest(tool))

\* toolFn up to its first request: the missing-id answer, the error thrown
\* by parseAquaItemId (caught by withAuth), the not-a-TestCase answer, or
\* the request.
toolFn(tool, input, taskId) ==
    LET raw == RawItemId(input, taskId) IN
    IF ~Truthy(raw)
    THEN ToolStep(NoParsed, MissingItemId, "none")
    ELSE LET toolParsed == parseAquaItemId(raw, ExplicitTypeOf(tool, input)) IN
         IF toolParsed.kind = "throw"
         THEN ToolStep(toolParsed, "Error", "none")
         ELSE IF /\ ChecksTestCase(tool)
                 /\ toLowerCase(toolParsed.itemType) # "testcase"
              THEN ToolStep(toolParsed, NotATestCase, "none")
              ELSE ToolStep(toolParsed, "", FirstRequest(tool))

\* The updatePayload of add-test-steps: { TestSteps: { Added: [...] } }.
AddedSteps == [hasTestSteps |-> TRUE, Added |-> "[stepA]", Deleted |-> "undefined"]

\* getAquaAuth returned: withAuth calls toolFn, which runs up to its first
\* request or returns.
withAuth_ToolFn(q) ==
    /\ rPc[q] = "granted"
    /\ tTool \in Tools
    /\ LET step == toolFn(tTool, tInput, sessionTaskId[rSession[q]]) IN
       /\ tParsed' = step.parsed
       /\ IF step.request = "none"
          THEN /\ rContent' = [rContent EXCEPT ![q] = step.content]
               /\ rPc' = [rPc EXCEPT ![q] = "done"]
               /\ UNCHANGED <<tCalls, rCalls>>
          ELSE /\ tCalls' = Append(tCalls, step.request)
               /\ rCalls' = [rCalls EXCEPT ![q].api = @ + 1]
               /\ rPc' = [rPc EXCEPT ![q] = "tool"]
               /\ UNCHANGED rContent
    /\ UNCHANGED <<now, sessionMemory, rSession, tokenData, rAuth>>
    /\ UNCHANGED <<sessionMemoryStore, sessionTransports, initPc, mcpStatus,
                   sessionUser, sessionTaskId, tTool, tInput>>
    /\ UNCHANGED <<uVars, wVars, fVars>>

\* The first request completed: its error (caught by withAuth), the result
\* of the two reading tools, or the call of updateLockedItem.
withAuth_ToolFnRequestDone(q, resp) ==
    /\ rPc[q] = "tool"
    /\ tTool \in Tools
    /\ LET result == callApi(resp) IN
       IF result.kind = "throw"
       THEN /\ rContent' = [rContent EXCEPT ![q] = "Error"]
            /\ rPc' = [rPc EXCEPT ![q] = "done"]
            /\ UNCHANGED uVars
       ELSE IF tTool = "add-test-steps"
            THEN /\ updateLockedItem_Enter(tParsed.itemType, AddedSteps)
                 /\ rPc' = [rPc EXCEPT ![q] = "update"]
                 /\ UNCHANGED rContent
            ELSE /\ rContent' = [rContent EXCEPT ![q] = result.data.body]
                 /\ rPc' = [rPc EXCEPT ![q] = "done"]
                 /\ UNCHANGED uVars
    /\ UNCHANGED <<now, sessionMemory, rSession, tokenData, rAuth, rCalls>>
    /\ UNCHANGED <<wVars, fVars, tVars>>

\* updateLockedItem returned or threw: the answer of add-test-steps.
withAuth_ToolFnUpdated(q) ==
    /\ rPc[q] = "update"
    /\ uDone
    /\ rContent' = [rContent EXCEPT ![q] =
                        IF uResult.kind = "return" THEN "Successfully added"
                        ELSE "Error"]
    /\ rPc' = [rPc EXCEPT ![q] = "done"]
    /\ UNCHANGED <<now, sessionMemory, rSession, tokenData, rAuth, rCalls>>
    /\ UNCHANGED <<uVars, wVars, fVars, tVars>>

\* The aquaAuth of the session when the tool is invoked: none, a token that
\* is still valid, or one that has expired and has a refresh token.
InvocationAuths ==
    { NoAquaAuth,
      NewAquaAuth(NoAquaAuth, 0, TokenData("a2", "r2", 120)),
      NewAquaAuth(NoAquaAuth, 0, TokenData("a2", "r2", 60)) }

\* One invocation of a tool on session s1, with any input, with or without a
\* task id in the session.
InitInvocation ==
    /\ now = 0
    /\ \E aquaAuth \in InvocationAuths :
           sessionMemory = [s \in Sessions |->
                               [aquaAuth |-> IF s = "s1" THEN aquaAuth
                                             ELSE NoAquaAuth]]
    /\ rPc = [q \in Requests |-> "idle"]
    /\ rSession = [q \in Requests |-> "s1"]
    /\ tokenData = [q \in Requests |-> NoTokenData]
    /\ rAuth = [q \in Requests |-> NoCredential]
    /\ rCalls = [q \in Requests |-> NoCalls]
    /\ rContent = [q \in Requests |-> ""]
    /\ sessionMemoryStore = Sessions
    /\ sessionTransports = Sessions
    /\ initPc = [s \in Sessions |-> "open"]
    /\ mcpStatus = [s \in Sessions |-> 0]
    /\ sessionUser = [s \in Sessions |-> SessionUser(s)]
    /\ \E taskId \in {"null", "Tc7"} :
           sessionTaskId = [s \in Sessions |-> IF s = "s1" THEN taskId ELSE "null"]
    /\ tTool \in Tools
    /\ tInput \in [itemId : ToolItemIds, itemType : ToolItemTypes]
    /\ tParsed = NoParsed
    /\ tCalls = << >>

NextTools ==
    \/ mcpPost_Tool("q1", "s1")
    \/ \E resp \in SessionTokenReplies("refresh") :
           getAquaAuth_RefreshDone("q1", resp)
    \/ \E resp \in SessionTokenReplies("login") :
           getAquaAuth_LoginDone("q1", resp)
    \/ withAuth_ToolFn("q1")
    \/ \E resp \in ApiReplies : withAuth_ToolFnRequestDone("q1", resp)
    \/ withAuth_ToolFnUpdated("q1")
    \/ \E resp \in TrackerReplies("fetch") : updateLockedItem_Fetched(resp)
    \/ \E resp \in TrackerReplies("lock"), applied \in BOOLEAN :
           updateLockedItem_Locked(resp, applied)
    \/ \E resp \in TrackerReplies("mutate") : updateLockedItem_Mutated(resp)
    \/ \E resp \in TrackerReplies("unlock"), applied \in BOOLEAN :
           updateLockedItem_Unlocked(resp, applied)

-----------------------------------------------------------------------------
(* Properties of the tool handlers. *)

\* The ID the invocation works on.
tRawId == RawItemId(tInput, sessionTaskId["s1"])

\* The ID of the invocation cannot be resolved: there is none, or it has no
\* recognized prefix and no type comes with it.
Unresolvable ==
    \/ ~Truthy(tRawId)
    \/ Falsy(ExplicitTypeOf(tTool, tInput)) /\ ~Recognized(tRawId.chars)

\* The invocation is over.
tDone == rPc["q1"] = "done"

\* C24 as stated: an invocation whose ID cannot be resolved sends no request
\* at all, not even a login or a refresh request.
C24_ResolvedBeforeAnyRequest ==
    Unresolvable => rCalls["q1"] = NoCalls /\ tCalls = << >>

\* C24: parseAquaItemId has completed successfully before the first Tracker
\* request of the tool itself is sent, so an invocation whose ID cannot be
\* resolved sends no item request and calls neither the tool's first request
\* nor updateLockedItem, and ends with an error result.  getAquaAuth runs
\* before the ID is parsed and may have sent a refresh or a login request.
C24_ResolvedBeforeToolRequest ==
    /\ tCalls # << >> => tParsed.kind = "return" /\ ~Unresolvable
    /\ Unresolvable =>
           /\ tCalls = << >>
           /\ uCalls = << >>
           /\ rCalls["q1"].api = 0
           /\ tDone => rContent["q1"] \in {MissingItemId, "Error"}

\* An ID without prefix and without type: the login was sent and answered,
\* parseAquaItemId threw, no request of the tool followed.
C24_Witness ==
    /\ tDone
    /\ Unresolvable
    /\ Truthy(tRawId)
    /\ rAuth["q1"].kind = "return"
    /\ rCalls["q1"].login = 1
    /\ tParsed = UnresolvedItemType
    /\ rContent["q1"] = "Error"
    /\ tCalls = << >>

\* C27: get-test-steps answers an RQ- or DF-prefixed ID with the
\* not-a-TestCase error and without a getTestSteps request; getTestSteps is
\* only called for an ID that is unprefixed or TC-prefixed.
C27_OnlyTestCaseIds ==
    tTool = "get-test-steps" =>
        /\ tCalls # << >> =>
               \/ ~Recognized(tRawId.chars)
               \/ \E p \in Prefixes : p.type = "TestCase" /\ IsPrefixed(tRawId.chars, p)
        /\ ( /\ tDone
             /\ rAuth["q1"].kind = "return"
             /\ \E p \in Prefixes : p.type # "TestCase" /\ IsPrefixed(tRawId.chars, p) )
               => rContent["q1"] = NotATestCase

\* C28: every mutation that add-test-steps causes carries both an Added and
\* a Deleted list.
C28_DeletedListSubmitted ==
    ( tTool = "add-test-steps" /\ Count(uCalls, "mutate") = 1 ) =>
        /\ finalPayload.hasTestSteps
        /\ finalPayload.Added # "undefined"
        /\ finalPayload.Deleted # "undefined"

-----------------------------------------------------------------------------
(* The specifications. *)

Init ==
    /\ InitLocked /\ InitWrapper /\ InitAuth /\ InitParse /\ InitCalls
    /\ InitStore /\ InitNoTool

\* The locked-item updater alone.
SpecLocked == Init /\ [][NextLocked]_vars

\* The withAquaAuth wrapper alone.
SpecWrapper == Init /\ [][NextWrapper]_vars

\* The sessions of the MCP server alone.
SpecAuth == Init /\ [][NextAuth]_vars

\* Calls of parseAquaItemId with every argument.
InitParsing ==
    /\ InitLocked /\ InitWrapper /\ InitAuth /\ InitParseCall /\ InitCalls
    /\ InitStore /\ InitNoTool

SpecParse == InitParsing /\ [][NextParse]_vars

\* Tracker calls answered in every way.
InitCalling ==
    /\ InitLocked /\ InitWrapper /\ InitAuth /\ InitParse /\ InitCallsReady
    /\ InitStore /\ InitNoTool

SpecCalls == InitCalling /\ [][NextCalls]_vars

\* The server from its start: sessions are created, used and closed.
InitServer ==
    /\ InitLocked /\ InitWrapper /\ InitAuth /\ InitParse /\ InitCalls
    /\ InitStoreEmpty /\ InitNoTool

SpecSessions == InitServer /\ [][NextSessions]_vars

\* One tool invocation with every input.
InitTooling ==
    /\ InitLocked /\ InitWrapper /\ InitParse /\ InitCalls /\ InitInvocation

SpecTools == InitTooling /\ [][NextTools]_vars

====
